---- MODULE Spec2Model ----
(***************************************************************************)
(* Element life cycle, packet gating and WebM muxing of libAvKys:          *)
(*   VideoMuxerWebmElement     (Muxers/webm/src/videomuxerwebmelement.cpp) *)
(*   AudioEncoderFaacElement   (Encoders/faac/src/audioencoderfaacelement) *)
(*   VideoEncoderRav1eElement  (the rav1e source kept in x264's header)    *)
(*   AudioDevPipeWire          (AudioDevice/src/pipewire/src)              *)
(* Each element's private object is one record; init(), uninit() and the   *)
(* packet callbacks are operators from record to record, composed by the   *)
(* actions exactly as the handlers call them.                              *)
(***************************************************************************)
EXTENDS Integers, Sequences, FiniteSets, TLC

VARIABLES element, mux, faac, rav1e, last, conf, pw, dev, thr

vars == <<element, mux, faac, rav1e, last, conf, pw, dev, thr>>

(* ------------------------------ bounds -------------------------------- *)

\* presentation timestamps of submitted packets range over 0..MaxPts
MaxPts == 1
\* packets an element accepts in one session (between init and uninit)
MaxPackets == 2
\* The largest m_maxBufferSize a negotiated format gives
MaxBuffers == 2
\* The most bytes one packet or one chunk of the device has
MaxChunk == 2
\* The most bytes written or captured between two calls of init()
MaxBytes == 4
\* Object ids of the PipeWire registry range over 1..MaxIds
MaxIds == 2

(* ---------------------------- value sets ------------------------------ *)

ElementStates == {"Null", "Paused", "Playing"}

Elements == {"mux", "faac", "rav1e"}

\* 1e9, the nanoseconds of a second in the AddFrame timestamp
NsPerSec == 1000000000

\* m_timeCodeScale {100000}
TimeCodeScale == 100000

\* AkFrac time bases of the packets: 1/fps of a video stream, 1/rate of an
\* audio stream.
TimeBases == {[num |-> 1, den |-> 30], [num |-> 1, den |-> 48000]}

PacketTypes == {"AudioCompressed", "VideoCompressed"}

\* The packets a caller can submit while the element is in state st, all
\* of them key frames.  The field "at" is the element state at submission;
\* the code never reads it.
Packets(st) ==
    [type : PacketTypes, pts : 0..MaxPts, duration : {1},
     timeBase : TimeBases, keyFrame : {TRUE}, at : {st}]

\* AkPacket::PacketType; a packet of another type than these is of type
\* "Subtitle"
AkPacketTypes ==
    {"Audio", "AudioCompressed", "Video", "VideoCompressed", "Subtitle"}

\* Every packet the oStream signal of m_packetSync can carry; keyFrame is
\* VideoPacketTypeFlag_KeyFrame of the flags of a compressed video packet
AkPackets(st) ==
    [type : AkPacketTypes, pts : 0..MaxPts, duration : {1},
     timeBase : TimeBases, keyFrame : BOOLEAN, at : {st}]

\* bool isAudio of packetReady(), lines 610-611
IsAudio(packet) == packet.type \in {"Audio", "AudioCompressed"}

\* A qreal number of seconds, kept exact as a fraction n/d.
Zero == [n |-> 0, d |-> 1]

FracLeq(a, b) == a.n * b.d <= b.n * a.d

FracMax(a, b) == IF FracLeq(b, a) THEN a ELSE b

\* packet.pts() * packet.timeBase().value(), in seconds
PacketTime(packet) ==
    [n |-> packet.pts * packet.timeBase.num, d |-> packet.timeBase.den]

(* --------------------- Utils/PacketSync helper ------------------------ *)
(* The muxer's m_packetSync.  It queues the audio and the video packets in *)
(* arrival order and releases them interleaved by presentation time; with  *)
(* audio disabled a video packet is released at once.  Switching it to     *)
(* Null releases what is still queued, in order.                           *)

RECURSIVE PacketSyncMerge(_, _, _)
PacketSyncMerge(audio, video, flush) ==
    IF audio # <<>> /\ video # <<>>
    THEN IF FracLeq(PacketTime(Head(audio)), PacketTime(Head(video)))
         THEN LET r == PacketSyncMerge(Tail(audio), video, flush)
              IN  [r EXCEPT !.out = <<Head(audio)>> \o @]
         ELSE LET r == PacketSyncMerge(audio, Tail(video), flush)
              IN  [r EXCEPT !.out = <<Head(video)>> \o @]
    ELSE IF flush
         THEN [audio |-> <<>>, video |-> <<>>, out |-> audio \o video]
         ELSE [audio |-> audio, video |-> video, out |-> <<>>]

PacketSyncIStream(sync, packet) ==
    IF sync.state # "Playing"
    THEN [sync |-> sync, out |-> <<>>]
    ELSE IF ~sync.audioEnabled
    THEN [sync |-> sync,
          out |-> IF IsAudio(packet) THEN <<>> ELSE <<packet>>]
    ELSE LET audio == IF IsAudio(packet) THEN Append(sync.audio, packet)
                      ELSE sync.audio
             video == IF IsAudio(packet) THEN sync.video
                      ELSE Append(sync.video, packet)
             r == PacketSyncMerge(audio, video, FALSE)
         IN  [sync |-> [sync EXCEPT !.audio = r.audio, !.video = r.video],
              out |-> r.out]

PacketSyncSetState(sync, state) ==
    IF state = "Null" /\ sync.state # "Null"
    THEN LET r == PacketSyncMerge(sync.audio, sync.video, TRUE)
             n == Len(r.out)
         IN  [sync |-> [sync EXCEPT !.state = "Null",
                                    !.audio = <<>>, !.video = <<>>],
              out |-> IF sync.discardLast /\ n > 0
                      THEN SubSeq(r.out, 1, n - 1) ELSE r.out]
    ELSE [sync |-> [sync EXCEPT !.state = state], out |-> <<>>]

(* ------------------------- AkElement base ----------------------------- *)

\* AkElement::setState: stores the new state and reports whether it changed.
AkElementSetState(d, state) ==
    [d |-> [d EXCEPT !.state = state], ret |-> d.state # state]

(* --------------------------- caps values ------------------------------ *)

VideoCodecIDs == {"unknown", "vp8", "vp9", "av1", "h264"}
AudioCodecIDs == {"unknown", "vorbis", "opus", "aac"}

\* Stream caps the host can have set on the muxer: a codec id and whether
\* the wrapped raw caps are valid.
NoCaps == [codec |-> "unknown", raw |-> FALSE]
VideoCapsSet == {NoCaps} \cup [codec : VideoCodecIDs \ {"unknown"}, raw : {TRUE}]
AudioCapsSet == {NoCaps} \cup [codec : AudioCodecIDs \ {"unknown"}, raw : {TRUE}]

\* operator bool of AkCompressedVideoCaps / AkCompressedAudioCaps
CapsValid(caps) == caps.codec # "unknown" /\ caps.raw

\* VideoCodecsTable::table() and AudioCodecsTable::table(), without the
\* closing unknown entry
\* Variant of VideoCodecsTable: a table that also lists h264.
VideoCodecsTable_WithH264 == <<"vp8", "vp9", "av1", "h264">>
VideoCodecsTable == <<"vp8", "vp9", "av1">>
AudioCodecsTable == <<"vorbis", "opus">>

\* byCodecID: the codec id of the entry found, "unknown" for the sentinel
RECURSIVE ByCodecID(_, _)
ByCodecID(table, codecID) ==
    IF table = <<>> THEN "unknown"
    ELSE IF Head(table) = codecID THEN codecID
    ELSE ByCodecID(Tail(table), codecID)

VideoByCodecID(codecID) == ByCodecID(VideoCodecsTable, codecID)
AudioByCodecID(codecID) == ByCodecID(AudioCodecsTable, codecID)

(* ----------------------- VideoMuxerWebmElement ----------------------- *)
(* Fields of VideoMuxerWebmElementPrivate, plus                            *)
(*   state      AkElement's state                                          *)
(*   m_writer   "closed", or the file the MkvWriter has open               *)
(*   file       the file at self->location(): "absent", "partial" while    *)
(*              the writer has it open, "final" once finalized and closed, *)
(*              "broken" when closed after a failed Finalize, "reordered"  *)
(*              once replaced by the copy with the cues moved              *)
(*   m_muxerSegment  the calls made on the segment since init() was last   *)
(*              entered                                                    *)
(*   m_cuesBeforeClusters  the member initializer is false and no          *)
(*              statement of the file assigns it; construction chooses it  *)
(*              here, so that the cue pass of uninit() is exercised        *)

\* One call on m_muxerSegment; an AddFrame call is noted with its packet.
NoPacket ==
    [type |-> "none", pts |-> 0, duration |-> 0,
     timeBase |-> [num |-> 0, den |-> 1], keyFrame |-> TRUE, at |-> "-"]
SegmentCall(call, track, timestamp) ==
    [call |-> call, track |-> track, timestamp |-> timestamp,
     key |-> TRUE, packet |-> NoPacket]

\* Variant of AddFrameTimestamp: the pts divided by the time base where
\* the element multiplies.
AddFrameTimestamp_DividesByTimeBase(packet) ==
    (packet.pts * packet.timeBase.den) \div packet.timeBase.num

\* uint64_t(packet.pts() * packet.timeBase().value() * 1e9): the multiple
\* of the time base in nanoseconds, truncated.
AddFrameTimestamp(packet) ==
    LET k == packet.pts * packet.timeBase.num
        den == packet.timeBase.den
    IN  k * (NsPerSec \div den) + (k * (NsPerSec % den)) \div den

\* (packet.pts() + packet.duration()) * packet.timeBase().value()
StreamDuration(packet) ==
    [n |-> (packet.pts + packet.duration) * packet.timeBase.num,
     d |-> packet.timeBase.den]

\* Variant of MuxPacketReady: the key flag of the packet is passed on for
\* every type, and a video packet restarts the audio duration.
MuxPacketReady_FlagOfEveryType(d, packet) ==
    LET track == IF IsAudio(packet) THEN d.m_audioTrackIndex
                 ELSE d.m_videoTrackIndex
        frame == SegmentCall("AddFrame", track, AddFrameTimestamp(packet))
        d1 == [d EXCEPT !.m_muxerSegment =
                            Append(@, [frame EXCEPT !.packet = packet,
                                                    !.key = packet.keyFrame])]
    IN  IF IsAudio(packet)
        THEN [d1 EXCEPT !.m_audioDuration = StreamDuration(packet)]
        ELSE [d1 EXCEPT !.m_videoDuration = StreamDuration(packet),
                        !.m_audioDuration = Zero]

\* packetReady(packet): the AddFrame call with its track and key flag, and
\* the running duration of the packet's stream
MuxPacketReady(d, packet) ==
    LET track == IF IsAudio(packet) THEN d.m_audioTrackIndex
                 ELSE d.m_videoTrackIndex
        isKey == IF packet.type = "VideoCompressed" THEN packet.keyFrame
                 ELSE TRUE
        frame == SegmentCall("AddFrame", track, AddFrameTimestamp(packet))
        d1 == [d EXCEPT !.m_muxerSegment =
                            Append(@, [frame EXCEPT !.packet = packet,
                                                    !.key = isKey])]
    IN  IF IsAudio(packet)
        THEN [d1 EXCEPT !.m_audioDuration = StreamDuration(packet)]
        ELSE [d1 EXCEPT !.m_videoDuration = StreamDuration(packet)]

\* if (!m_muxerSegment.AddFrame(...)) qCritical() << ...: a failed AddFrame
\* selects a message and nothing else, lines 621-632.
MuxAddFrameFailed(d) == d

\* The oStream signal of m_packetSync, connected to packetReady in the
\* constructor: one call per packet released.
RECURSIVE MuxPacketsReady(_, _)
MuxPacketsReady(d, packets) ==
    IF packets = <<>> THEN d
    ELSE MuxPacketsReady(MuxPacketReady(d, Head(packets)), Tail(packets))

\* qRound64(duration * 1e9 / m_timeCodeScale)
SegmentDuration(duration) ==
    LET k == NsPerSec \div TimeCodeScale
    IN  (2 * duration.n * k + duration.d) \div (2 * duration.d)

\* What the environment decides during one uninit(): the stream durations
\* the host reported (samples at 48000 Hz, frames at 30 fps), whether
\* Finalize succeeds, and the step of the cue pass that fails, if any.
StreamDurations == {0, 60}
CueFaults == {"none", "reader.Open", "tempDir", "writer.Open",
              "CopyAndMoveCuesBeforeClusters", "remove", "rename"}
UninitEnvs ==
    [audioStreamDuration : StreamDurations,
     videoStreamDuration : StreamDurations,
     finalizeOk : BOOLEAN, cueFault : CueFaults]
QuietUninit ==
    [audioStreamDuration |-> 0, videoStreamDuration |-> 0,
     finalizeOk |-> TRUE, cueFault |-> "none"]

\* The cue pass of uninit(), lines 559-603, on the closed file.  The
\* temporary file lives in a QTemporaryDir that is removed on return.
MuxMoveCues(d, env) ==
    IF env.cueFault = "reader.Open"
    THEN d
    ELSE IF env.cueFault = "tempDir"
    THEN d
    ELSE LET copied == env.cueFault \notin
                           {"writer.Open", "CopyAndMoveCuesBeforeClusters"}
             \* QFile::remove(self->location())
             removed == IF env.cueFault = "remove" THEN d
                        ELSE [d EXCEPT !.file = "absent"]
             \* QFile::rename(tmp, self->location()) needs the name free
             renamed == IF removed.file = "absent" /\ env.cueFault # "rename"
                        THEN [removed EXCEPT !.file = "reordered"]
                        ELSE removed
         IN  [(IF copied THEN renamed ELSE d) EXCEPT !.m_paused = FALSE]

\* uninit() after Finalize and Close, lines 559-605
MuxAfterClose(d, env) ==
    IF d.m_cuesBeforeClusters
    THEN MuxMoveCues(d, env)
    ELSE [d EXCEPT !.m_paused = FALSE]

\* Variant of MuxDuration: the maximum of both streams whatever tracks
\* were added.
MuxDuration_AlwaysMax(d, env) ==
    FracMax(IF env.audioStreamDuration > 0
            THEN [n |-> env.audioStreamDuration, d |-> 48000]
            ELSE d.m_audioDuration,
            IF env.videoStreamDuration > 0
            THEN [n |-> env.videoStreamDuration, d |-> 30]
            ELSE d.m_videoDuration)

\* Variant of MuxDuration: the video stream alone decides.
MuxDuration_VideoOnly(d, env) ==
    IF env.videoStreamDuration > 0
    THEN [n |-> env.videoStreamDuration, d |-> 30]
    ELSE d.m_videoDuration

\* the duration uninit() writes, lines 528-551
MuxDuration(d, env) ==
    IF d.m_audioTrackIndex < 1
    THEN IF env.videoStreamDuration > 0
         THEN [n |-> env.videoStreamDuration, d |-> 30]
         ELSE d.m_videoDuration
    ELSE FracMax(IF env.audioStreamDuration > 0
                 THEN [n |-> env.audioStreamDuration, d |-> 48000]
                 ELSE d.m_audioDuration,
                 IF env.videoStreamDuration > 0
                 THEN [n |-> env.videoStreamDuration, d |-> 30]
                 ELSE d.m_videoDuration)

\* set_duration, Finalize and m_writer.Close(), lines 552-557
MuxFinalize(d, env) ==
    [d EXCEPT
        !.m_muxerSegment =
            @ \o <<SegmentCall("set_duration", 0,
                               SegmentDuration(MuxDuration(d, env))),
                   SegmentCall("Finalize", 0, 0)>>,
        !.m_writer = "closed",
        !.file = IF env.finalizeOk THEN "final" ELSE "broken"]

\* m_packetSync->setState(Null), with the packets it releases on the way
MuxFlush(d, flushed) ==
    MuxPacketsReady([d EXCEPT !.m_packetSync = flushed.sync], flushed.out)

\* Variant of MuxUninit: the segment is finalized before m_packetSync is
\* switched to Null.
MuxUninit_FinalizeFirst(d, env) ==
    IF ~d.m_initialized
    THEN d
    ELSE MuxAfterClose(
             MuxFlush(MuxFinalize([d EXCEPT !.m_initialized = FALSE], env),
                      PacketSyncSetState(d.m_packetSync, "Null")),
             env)

MuxUninit(d, env) ==
    IF ~d.m_initialized
    THEN d
    ELSE MuxAfterClose(
             MuxFinalize(
                 MuxFlush([d EXCEPT !.m_initialized = FALSE],
                          PacketSyncSetState(d.m_packetSync, "Null")),
                 env),
             env)

\* What the environment decides during one init(): the stream caps the host
\* has set, and the first native call that fails, if it is reached.
MuxInitFaults == {"none", "writer.Open", "Segment.Init", "AddVideoTrack",
                  "GetVideoTrack", "AddAudioTrack", "GetAudioTrack"}
MuxInitEnvs ==
    {e \in [videoCaps : VideoCapsSet, audioCaps : AudioCapsSet,
            fault : MuxInitFaults] :
        \/ e.fault = "none"
        \/ /\ e.videoCaps.codec \in {"vp8", "vp9", "av1"}
           /\ e.audioCaps.codec \in {"unknown", "vorbis", "opus"}
           /\ e.fault \in {"AddAudioTrack", "GetAudioTrack"}
                  => e.audioCaps.codec # "unknown"}
QuietMuxInit == [videoCaps |-> NoCaps, audioCaps |-> NoCaps, fault |-> "none"]

MuxInitFailed(d, at) == [d |-> d, ok |-> FALSE, at |-> at]

\* Variant of MuxCloseAndRemove: the writer is closed and the file kept.
MuxCloseAndRemove_KeepsFile(d) == [d EXCEPT !.m_writer = "closed"]

\* m_writer.Close(); QFile::remove(location);
MuxCloseAndRemove(d) == [d EXCEPT !.m_writer = "closed", !.file = "absent"]

\* Variant of MuxInitStart: m_packetSync is started with audioEnabled true
\* whatever the audio caps are.
MuxInitStart_AudioAlwaysEnabled(d, env) ==
    [d |-> [d EXCEPT
               !.m_packetSync =
                   PacketSyncSetState(
                       [@ EXCEPT !.audioEnabled = TRUE,
                                 !.discardLast = FALSE],
                       "Playing").sync,
               !.m_initialized = TRUE],
     ok |-> TRUE, at |-> "none"]

\* the end of init(), lines 508-515
MuxInitStart(d, env) ==
    [d |-> [d EXCEPT
               !.m_packetSync =
                   PacketSyncSetState(
                       [@ EXCEPT !.audioEnabled = CapsValid(env.audioCaps),
                                 !.discardLast = FALSE],
                       "Playing").sync,
               !.m_initialized = TRUE],
     ok |-> TRUE, at |-> "none"]

\* init() after AddAudioTrack, lines 457-482
MuxInitAudioTrack(d, env) ==
    IF d.m_audioTrackIndex < 1
    THEN MuxInitFailed(MuxCloseAndRemove(d), "AddAudioTrack")
    ELSE IF env.fault = "GetAudioTrack"
    THEN MuxInitFailed(MuxCloseAndRemove(d), "GetAudioTrack")
    ELSE MuxInitStart(d, env)

\* init() after AddVideoTrack, lines 422-456
MuxInitVideoTrack(d, env) ==
    IF d.m_videoTrackIndex < 1
    THEN MuxInitFailed(MuxCloseAndRemove(d), "AddVideoTrack")
    ELSE IF env.fault = "GetVideoTrack"
    THEN MuxInitFailed(MuxCloseAndRemove(d), "GetVideoTrack")
    ELSE IF CapsValid(env.audioCaps)
    THEN MuxInitAudioTrack(
             [d EXCEPT !.m_muxerSegment =
                           Append(@, SegmentCall("AddAudioTrack", 0, 0)),
                       !.m_audioTrackIndex =
                           IF env.fault = "AddAudioTrack" THEN 0 ELSE 2],
             env)
    ELSE MuxInitStart(d, env)

\* init() after m_writer.Open succeeded, lines 382-420
MuxInitSegment(d, env) ==
    IF env.fault = "Segment.Init"
    THEN MuxInitFailed(MuxCloseAndRemove(d), "Segment.Init")
    ELSE MuxInitVideoTrack(
             [d EXCEPT !.m_muxerSegment =
                           Append(@, SegmentCall("AddVideoTrack", 0, 0)),
                       !.m_videoTrackIndex =
                           IF env.fault = "AddVideoTrack" THEN 0 ELSE 1],
             env)

\* init() from the point where the writer opens the file, lines 374-380
MuxInitOpen(d, env) ==
    IF env.fault = "writer.Open"
    THEN MuxInitFailed(d, "writer.Open")
    ELSE MuxInitSegment(
             [d EXCEPT !.m_writer = "location", !.file = "partial",
                       !.m_muxerSegment =
                           Append(@, SegmentCall("Init", 0, 0))],
             env)

\* init() after the counters are reset: the caps checks, lines 342-372
MuxInitCaps(d, env) ==
    IF ~CapsValid(env.videoCaps)
    THEN MuxInitFailed(d, "videoCaps")
    ELSE IF VideoByCodecID(env.videoCaps.codec) = "unknown"
    THEN MuxInitFailed(d, "videoCodec")
    ELSE IF CapsValid(env.audioCaps)
            /\ AudioByCodecID(env.audioCaps.codec) = "unknown"
    THEN MuxInitFailed(d, "audioCodec")
    ELSE MuxInitOpen(d, env)

\* init() after its call of uninit(), lines 334-340
MuxInitReset(d, env) ==
    IF ~d.m_packetSync.loaded
    THEN MuxInitFailed(d, "m_packetSync")
    ELSE MuxInitCaps([d EXCEPT !.m_audioDuration = Zero,
                               !.m_videoDuration = Zero,
                               !.m_audioTrackIndex = 0,
                               !.m_videoTrackIndex = 0],
                     env)

MuxInit(d, env) ==
    MuxInitReset([MuxUninit(d, QuietUninit) EXCEPT !.m_muxerSegment = <<>>],
                 env)

\* The value setState returns with the private object it leaves: ret is
\* the value returned, at the step at which init() gave up ("none" when it
\* did not or was not called).
Returned(b, at) == [d |-> b.d, ret |-> b.ret, at |-> at]

\* Variant of MuxSetStateInit: a failed init() leaves m_paused as the
\* Paused case set it.
MuxSetStateInit_KeepsPaused(r, state) ==
    IF ~r.ok
    THEN [d |-> r.d, ret |-> FALSE, at |-> r.at]
    ELSE Returned(AkElementSetState(r.d, state), r.at)

\* setState in state Null once init() has returned r, lines 264-270
MuxSetStateInit(r, state) ==
    IF ~r.ok
    THEN [d |-> [r.d EXCEPT !.m_paused = FALSE], ret |-> FALSE, at |-> r.at]
    ELSE Returned(AkElementSetState(r.d, state), r.at)

\* Variant of MuxSetPaused: pausing and resuming restart the running
\* durations.
MuxSetPaused_RestartsDurations(d, paused) ==
    [d EXCEPT !.m_paused = paused,
              !.m_audioDuration = Zero, !.m_videoDuration = Zero]

\* this->d->m_paused = ...; of the Paused <-> Playing cases, lines 284, 300
MuxSetPaused(d, paused) == [d EXCEPT !.m_paused = paused]

\* Variant of MuxSetStateIgnored: a transition that is not handled
\* reports success.
MuxSetStateIgnored_Success(d) == [d |-> d, ret |-> TRUE, at |-> "none"]

\* the default: cases and the closing return false, lines 271-275, 311
MuxSetStateIgnored(d) == [d |-> d, ret |-> FALSE, at |-> "none"]

MuxSetState(d, state, init, uninit) ==
    IF d.state = "Null" /\ state \in {"Paused", "Playing"}
    THEN MuxSetStateInit(
             MuxInit(IF state = "Paused"
                     THEN [d EXCEPT !.m_paused = (state = "Paused")]
                     ELSE d,
                     init),
             state)
    ELSE IF d.state \in {"Paused", "Playing"} /\ state = "Null"
    THEN Returned(AkElementSetState(MuxUninit(d, uninit), state), "none")
    ELSE IF d.state = "Paused" /\ state = "Playing"
    THEN Returned(AkElementSetState(MuxSetPaused(d, FALSE), state),
                  "none")
    ELSE IF d.state = "Playing" /\ state = "Paused"
    THEN Returned(AkElementSetState(MuxSetPaused(d, TRUE), state),
                  "none")
    ELSE MuxSetStateIgnored(d)

\* iStream(packet) once m_packetSync->iStream has returned r
MuxSynced(d, r) ==
    MuxPacketsReady([d EXCEPT !.m_packetSync = r.sync], r.out)

\* Variant of MuxIStream: the guard tests m_initialized only.
MuxIStream_IgnoresPause(d, packet) ==
    IF ~d.m_initialized \/ ~d.m_packetSync.loaded
    THEN d
    ELSE MuxSynced(d, PacketSyncIStream(d.m_packetSync, packet))

\* iStream(packet)
MuxIStream(d, packet) ==
    IF d.m_paused \/ ~d.m_initialized \/ ~d.m_packetSync.loaded
    THEN d
    ELSE MuxSynced(d, PacketSyncIStream(d.m_packetSync, packet))

\* Packets the muxer took in since init() was last entered.
MuxFrames(d) == SelectSeq(d.m_muxerSegment, LAMBDA c : c.call = "AddFrame")
MuxAccepted(d) ==
    Len(MuxFrames(d)) + Len(d.m_packetSync.audio) + Len(d.m_packetSync.video)

(* ---------------------- AudioEncoderFaacElement ----------------------- *)
(* Fields of AudioEncoderFaacElementPrivate, plus                          *)
(*   state      AkElement's state                                          *)
(*   m_encoder  "null", "open", or "closed" for a handle that was passed   *)
(*              to faacEncClose and is still stored                        *)
(*   calls      the faacEncEncode calls since init() was last entered      *)
(*   oStream    the compressed packets emitted since then                  *)

\* Raw audio packets a caller can submit while the element is in state st.
FaacPackets(st) == [samples : {512, 1024}, valid : BOOLEAN, at : {st}]

\* AudioFilter/FillAudioGaps, the helper between iAudioStream and
\* encodeFrame: while Playing it hands each packet on as one frame.
FillAudioGapsIStream(helper, packet) ==
    IF helper.state = "Playing" THEN <<packet>> ELSE <<>>

\* Variant of FaacSendFrame: the packet is stamped with the samples
\* consumed, not with the samples emitted.
FaacSendFrame_StampsEncodedTime(d, samples) ==
    [d EXCEPT !.oStream = Append(@, [pts |-> d.m_encodedTimePts,
                                     dts |-> d.m_encodedTimePts,
                                     duration |-> samples]),
              !.m_pts = @ + samples]

\* sendFrame(packetData, samples, writtenBytes)
FaacSendFrame(d, samples) ==
    [d EXCEPT !.oStream = Append(@, [pts |-> d.m_pts, dts |-> d.m_pts,
                                     duration |-> samples]),
              !.m_pts = @ + samples]

\* Variant of FaacEncodeFrame: a negative result of faacEncEncode ends the
\* session.
FaacEncodeFrame_FailureEndsSession(d, src, written) ==
    IF ~src.valid
    THEN d
    ELSE LET d1 == [d EXCEPT !.calls =
                        Append(@, [encoder |-> d.m_encoder, at |-> src.at])]
             d2 == IF written > 0 THEN FaacSendFrame(d1, src.samples) ELSE d1
         IN  IF written < 0
             THEN [d1 EXCEPT !.m_initialized = FALSE]
             ELSE [d2 EXCEPT !.m_encodedTimePts = @ + src.samples]

\* encodeFrame(src); written is the value faacEncEncode returns
FaacEncodeFrame(d, src, written) ==
    IF ~src.valid
    THEN d
    ELSE LET d1 == [d EXCEPT !.calls =
                        Append(@, [encoder |-> d.m_encoder, at |-> src.at])]
             d2 == IF written > 0 THEN FaacSendFrame(d1, src.samples) ELSE d1
         IN  IF written < 0
             THEN d1
             ELSE [d2 EXCEPT !.m_encodedTimePts = @ + src.samples]

\* Variant of FaacUninit: the encoder is closed whether the element is
\* initialized or not.
FaacUninit_ClosesUninitialized(d) ==
    [d EXCEPT !.m_initialized = FALSE,
              !.m_fillAudioGaps.state =
                  IF d.m_fillAudioGaps.loaded /\ d.m_initialized
                  THEN "Null" ELSE @,
              !.closes = IF d.m_encoder # "null" THEN @ + 1 ELSE @,
              !.m_encoder = "null",
              !.m_paused = FALSE]

\* uninit(); closes counts the faacEncClose calls made for the handle that
\* faacEncOpen returned last
FaacUninit(d) ==
    IF ~d.m_initialized
    THEN d
    ELSE [d EXCEPT !.m_initialized = FALSE,
                   !.m_fillAudioGaps.state =
                       IF d.m_fillAudioGaps.loaded THEN "Null" ELSE @,
                   !.closes = IF d.m_encoder # "null" THEN @ + 1 ELSE @,
                   !.m_encoder = "null",
                   !.m_paused = FALSE]

\* What the environment decides during one init(): whether the input caps
\* are valid, and the first native call that fails.
FaacInitFaults == {"none", "faacEncOpen", "version",
                   "faacEncSetConfiguration"}
FaacInitEnvs == [inputCaps : BOOLEAN, fault : FaacInitFaults]
QuietFaacInit == [inputCaps |-> TRUE, fault |-> "none"]

FaacInitFailed(d, at) == [d |-> d, ok |-> FALSE, at |-> at]

FaacInit(d, env) ==
    LET d0 == [FaacUninit(d) EXCEPT !.calls = <<>>, !.oStream = <<>>]
        opened == [d0 EXCEPT !.m_encoder = "open", !.closes = 0]
        closed == [d0 EXCEPT !.m_encoder = "closed", !.closes = 1]
        started ==
            [opened EXCEPT
                !.m_fillAudioGaps.state =
                    IF d0.m_fillAudioGaps.loaded THEN "Playing" ELSE @,
                !.m_pts = 0,
                !.m_encodedTimePts = 0,
                !.m_initialized = TRUE]
    IN  IF ~env.inputCaps
        THEN FaacInitFailed(d0, "inputCaps")
        ELSE IF env.fault = "faacEncOpen"
        THEN FaacInitFailed([d0 EXCEPT !.m_encoder = "null", !.closes = 0],
                            "faacEncOpen")
        ELSE IF env.fault = "version"
        THEN FaacInitFailed(closed, "version")
        ELSE IF env.fault = "faacEncSetConfiguration"
        THEN FaacInitFailed(closed, "faacEncSetConfiguration")
        ELSE [d |-> started, ok |-> TRUE, at |-> "none"]

FaacSetStateInit(r, state) ==
    IF ~r.ok
    THEN [d |-> [r.d EXCEPT !.m_paused = FALSE], ret |-> FALSE, at |-> r.at]
    ELSE Returned(AkElementSetState(r.d, state), r.at)

FaacSetState(d, state, init) ==
    IF d.state = "Null" /\ state \in {"Paused", "Playing"}
    THEN FaacSetStateInit(
             FaacInit(IF state = "Paused"
                      THEN [d EXCEPT !.m_paused = (state = "Paused")]
                      ELSE d,
                      init),
             state)
    ELSE IF d.state \in {"Paused", "Playing"} /\ state = "Null"
    THEN Returned(AkElementSetState(FaacUninit(d), state), "none")
    ELSE IF d.state = "Paused" /\ state = "Playing"
    THEN Returned(AkElementSetState([d EXCEPT !.m_paused = FALSE], state),
                  "none")
    ELSE IF d.state = "Playing" /\ state = "Paused"
    THEN Returned(AkElementSetState([d EXCEPT !.m_paused = TRUE], state),
                  "none")
    ELSE [d |-> d, ret |-> FALSE, at |-> "none"]

\* The oStream signal of m_fillAudioGaps, connected to encodeFrame.
RECURSIVE FaacEncodeFrames(_, _, _)
FaacEncodeFrames(d, frames, written) ==
    IF frames = <<>> THEN d
    ELSE FaacEncodeFrames(FaacEncodeFrame(d, Head(frames), written),
                          Tail(frames), written)

\* Variant of FaacIAudioStream: the test leaves m_initialized out.
FaacIAudioStream_IgnoresInitialized(d, packet, written) ==
    IF d.m_paused \/ ~d.m_fillAudioGaps.loaded
    THEN d
    ELSE FaacEncodeFrames(d, <<packet>>, written)

\* iAudioStream(packet)
FaacIAudioStream(d, packet, written) ==
    IF d.m_paused \/ ~d.m_initialized \/ ~d.m_fillAudioGaps.loaded
    THEN d
    ELSE FaacEncodeFrames(d, FillAudioGapsIStream(d.m_fillAudioGaps, packet),
                          written)

(* ---------------------- VideoEncoderRav1eElement ---------------------- *)
(* Fields of VideoEncoderRav1eElementPrivate, plus                         *)
(*   state      AkElement's state                                          *)
(*   m_encoder  "null" or "open"                                           *)
(*   calls      the rav1e_send_frame calls since init() was last entered   *)
(*   oStream    the number of compressed packets emitted since then        *)

\* Raw video packets a caller can submit while the element is in state st.
Rav1ePackets(st) ==
    [pts : 0..MaxPts, duration : {1}, valid : BOOLEAN, at : {st}]

\* VideoFilter/FpsControl, the helper between iVideoStream and encodeFrame:
\* it hands each packet it is given on as one frame.
FpsControlIStream(helper, packet) == <<packet>>

\* What the environment decides during one encodeFrame(): whether
\* rav1e_frame_new returns a frame, what rav1e_send_frame returns, and how
\* many packets rav1e_receive_packet then returns.
Rav1eEncodeEnvs ==
    [frame : BOOLEAN, send : {"SUCCESS", "FAILURE"}, packets : 0..1]

\* encodeFrame(src)
Rav1eEncodeFrame(d, src, env) ==
    IF ~env.frame
    THEN d
    ELSE LET d1 == [d EXCEPT !.calls =
                        Append(@, [encoder |-> d.m_encoder, at |-> src.at])]
         IN  IF env.send # "SUCCESS"
             THEN d1
             ELSE [d1 EXCEPT !.oStream = @ + env.packets,
                             !.m_encodedTimePts = src.pts + src.duration]

\* uninit(); pending is the number of packets the encoder still returns
Rav1eUninit(d, pending) ==
    IF ~d.m_initialized
    THEN d
    ELSE [d EXCEPT !.m_initialized = FALSE,
                   !.oStream = IF d.m_encoder # "null" THEN @ + pending ELSE @,
                   !.m_encoder = "null",
                   !.m_paused = FALSE]

Rav1eInitFaults == {"none", "rav1e_config_default", "width", "height",
                    "key_frame_interval", "bitrate", "pixel_format",
                    "color_description", "rav1e_context_new"}
Rav1eInitEnvs == [inputCaps : BOOLEAN, fault : Rav1eInitFaults]
QuietRav1eInit == [inputCaps |-> TRUE, fault |-> "none"]

\* init(); config is what became of the RaConfig of this call: "none"
\* when rav1e_config_default was not called or returned none, "released"
\* after rav1e_config_unref, "live" otherwise
Rav1eInit(d, env) ==
    LET d0 == [Rav1eUninit(d, 0) EXCEPT !.calls = <<>>, !.oStream = 0,
                                        !.config = "none"]
    IN  IF ~env.inputCaps
        THEN [d |-> d0, ok |-> FALSE, at |-> "inputCaps"]
        ELSE IF env.fault = "rav1e_config_default"
        THEN [d |-> d0, ok |-> FALSE, at |-> env.fault]
        ELSE IF env.fault = "rav1e_context_new"
        THEN [d |-> [d0 EXCEPT !.m_encoder = "null", !.config = "released"],
              ok |-> FALSE, at |-> env.fault]
        ELSE IF env.fault # "none"
        THEN [d |-> [d0 EXCEPT !.config = "released"],
              ok |-> FALSE, at |-> env.fault]
        ELSE [d |-> [d0 EXCEPT !.m_encoder = "open",
                               !.config = "released",
                               !.m_encodedTimePts = 0,
                               !.m_initialized = TRUE],
              ok |-> TRUE, at |-> "none"]

Rav1eSetStateInit(r, state) ==
    IF ~r.ok
    THEN [d |-> [r.d EXCEPT !.m_paused = FALSE], ret |-> FALSE, at |-> r.at]
    ELSE Returned(AkElementSetState(r.d, state), r.at)

Rav1eSetState(d, state, init, pending) ==
    IF d.state = "Null" /\ state \in {"Paused", "Playing"}
    THEN Rav1eSetStateInit(
             Rav1eInit(IF state = "Paused"
                      THEN [d EXCEPT !.m_paused = (state = "Paused")]
                      ELSE d,
                      init),
             state)
    ELSE IF d.state \in {"Paused", "Playing"} /\ state = "Null"
    THEN Returned(AkElementSetState(Rav1eUninit(d, pending), state), "none")
    ELSE IF d.state = "Paused" /\ state = "Playing"
    THEN Returned(AkElementSetState([d EXCEPT !.m_paused = FALSE], state),
                  "none")
    ELSE IF d.state = "Playing" /\ state = "Paused"
    THEN Returned(AkElementSetState([d EXCEPT !.m_paused = TRUE], state),
                  "none")
    ELSE [d |-> d, ret |-> FALSE, at |-> "none"]

\* iVideoStream(packet); discard is the answer of m_fpsControl's discard(),
\* converted whether m_videoConverter.convert() returned a frame for a
\* valid packet (for an invalid one it returns none)
Rav1eIVideoStream(d, packet, discard, converted, env) ==
    IF d.m_paused \/ ~d.m_initialized \/ ~d.m_fpsControl.loaded
    THEN d
    ELSE IF discard \/ ~(packet.valid /\ converted)
    THEN d
    ELSE Rav1eEncodeFrame(d, Head(FpsControlIStream(d.m_fpsControl, packet)),
                          env)

(* -------------------------- AudioDevPipeWire --------------------------- *)
(* Fields of AudioDevPipeWirePrivate that init(), uninit(), read(),        *)
(* write() and the stream callbacks use: the three handles ("null" or      *)
(* "open"), m_isCapture, m_maxBufferSize and m_buffers as the sequence of  *)
(* the bytes it holds, each byte named by the number it got when it was    *)
(* written or captured. m_mutex is held by read(), write() and onProcess() *)
(* for their whole body except while they wait, so each is one step up to  *)
(* its wait and one step after it. Besides:                                *)
(*   waiting  "read" or "write" while a thread waits on                    *)
(*            m_bufferIsNotEmpty or m_bufferIsNotFull, else "none"         *)
(*   woken    a wakeAll() reached the waiting thread                       *)
(*   calls    the PipeWire functions the last operation called             *)
(*   negotiated  onParamChanged() was given a format since init()          *)
(*   bytes    how many bytes were written or captured since init()         *)
(*   played   the bytes onProcess() copied to the device since init()      *)
(*   returned the bytes read() returned since init()                       *)
(*   out      what the last read() returned                                *)
(*   format   the PipeWire format the stream was last connected with       *)

NewPipeWire ==
    [m_pwStreamLoop |-> "null", m_pwStreamContext |-> "null",
     m_pwStream |-> "null", m_buffers |-> <<>>, m_maxBufferSize |-> 0,
     m_isCapture |-> FALSE,
     m_curCaps |-> [format |-> "none", planar |-> FALSE], format |-> "none",
     waiting |-> "none", woken |-> FALSE, calls |-> <<>>, negotiated |-> FALSE, bytes |-> 0, played |-> <<>>,
     returned |-> {}, out |-> <<>>]

\* Variant of PipeWireUninit: the thread loop is stopped without asking
\* whether there is one.
PipeWireUninit_StopsAlways(d) ==
    [d EXCEPT !.calls = Append(@, "pw_thread_loop_stop"),
              !.m_pwStream = "null", !.m_pwStreamContext = "null",
              !.m_pwStreamLoop = "null", !.m_buffers = <<>>]

\* AudioDevPipeWire::uninit()
PipeWireUninit(d) ==
    [d EXCEPT
        !.calls =
            @ \o (IF d.m_pwStreamLoop # "null"
                  THEN <<"pw_thread_loop_stop">> ELSE <<>>)
              \o (IF d.m_pwStream # "null"
                  THEN <<"pw_stream_disconnect", "pw_stream_destroy">>
                  ELSE <<>>)
              \o (IF d.m_pwStreamContext # "null"
                  THEN <<"pw_context_destroy">> ELSE <<>>)
              \o (IF d.m_pwStreamLoop # "null"
                  THEN <<"pw_thread_loop_destroy">> ELSE <<>>),
        !.m_pwStream = "null", !.m_pwStreamContext = "null",
        !.m_pwStreamLoop = "null", !.m_buffers = <<>>]

\* How many of the PipeWire calls of init() are made when `fault` is the
\* one that fails; a stream that pw_stream_new does not return is not
\* looked at.
PwReached(fault) ==
    CASE fault = "pw_thread_loop_new" -> 1
      [] fault = "pw_context_new" -> 2
      [] fault = "pw_thread_loop_start" -> 3
      [] fault = "pw_context_connect" -> 4
      [] OTHER -> 6

\* The calls init() makes up to the failing one, and the handles it holds
\* then.
PwAcquired(d, fault) ==
    [d EXCEPT
        !.calls = @ \o SubSeq(<<"pw_thread_loop_new", "pw_context_new",
                                "pw_thread_loop_start", "pw_context_connect",
                                "pw_stream_new", "pw_stream_connect">>,
                              1, PwReached(fault)),
        !.m_pwStreamLoop =
            IF fault = "pw_thread_loop_new" THEN "null" ELSE "open",
        !.m_pwStreamContext =
            IF PwReached(fault) >= 2 /\ fault # "pw_context_new"
            THEN "open" ELSE "null",
        !.m_pwStream =
            IF PwReached(fault) >= 5 /\ fault # "pw_stream_new"
            THEN "open" ELSE "null"]

\* SampleFormat::table(): the sample formats PipeWire has a format for,
\* none of them planar, closed by the entry of SampleFormat_none
SampleFormatTable ==
    << [pwFormat |-> "S8", format |-> "s8", planar |-> FALSE],
       [pwFormat |-> "U8", format |-> "u8", planar |-> FALSE],
       [pwFormat |-> "S16_LE", format |-> "s16le", planar |-> FALSE],
       [pwFormat |-> "S16_BE", format |-> "s16be", planar |-> FALSE],
       [pwFormat |-> "U16_LE", format |-> "u16le", planar |-> FALSE],
       [pwFormat |-> "U16_BE", format |-> "u16be", planar |-> FALSE],
       [pwFormat |-> "S32_LE", format |-> "s32le", planar |-> FALSE],
       [pwFormat |-> "S32_BE", format |-> "s32be", planar |-> FALSE],
       [pwFormat |-> "U32_LE", format |-> "u32le", planar |-> FALSE],
       [pwFormat |-> "U32_BE", format |-> "u32be", planar |-> FALSE],
       [pwFormat |-> "F32_LE", format |-> "fltle", planar |-> FALSE],
       [pwFormat |-> "F32_BE", format |-> "fltbe", planar |-> FALSE],
       [pwFormat |-> "F64_LE", format |-> "dblle", planar |-> FALSE],
       [pwFormat |-> "F64_BE", format |-> "dblbe", planar |-> FALSE],
       [pwFormat |-> "UNKNOWN", format |-> "none", planar |-> FALSE] >>

RECURSIVE ByFormatFrom(_, _, _)
ByFormatFrom(item, format, planar) ==
    IF SampleFormatTable[item].format = "none" THEN item
    ELSE IF /\ SampleFormatTable[item].format = format
            /\ SampleFormatTable[item].planar = planar
    THEN item
    ELSE ByFormatFrom(item + 1, format, planar)

\* SampleFormat::byFormat(format, planar): the place in the table of the
\* entry found, the closing entry when there is none; 0 stands for a null
\* pointer
ByFormat(format, planar) == ByFormatFrom(1, format, planar)

\* AudioDevPipeWire::init(device, caps); fault is the first call that
\* fails, capture is whether device is one of m_sources
PipeWireInit(d, caps, fault, capture) ==
    LET pwFormat == ByFormat(caps.format, caps.planar)
    IN  IF pwFormat = 0
        THEN [d |-> PipeWireUninit(d), ret |-> FALSE]
        ELSE LET c == [PipeWireUninit(d) EXCEPT !.m_curCaps = caps,
                                                !.m_isCapture = capture]
             IN  IF PwReached(fault) <= 4
                 THEN [d |-> PipeWireUninit(PwAcquired(c, fault)),
                       ret |-> FALSE]
                 ELSE [d |-> [PwAcquired(c, fault) EXCEPT
                                  !.format =
                                      SampleFormatTable[pwFormat].pwFormat],
                       ret |-> TRUE]

\* The bytes numbered from + 1 .. from + n
NewBytes(from, n) == [i \in 1..n |-> from + i]

\* QByteArray::mid(pos, len)
Mid(ba, pos, len) == SubSeq(ba, pos + 1, pos + len)

\* Variant of PipeWireReadTake: the buffer keeps what was returned.
PipeWireReadTake_KeepsBuffer(d) ==
    [d EXCEPT !.out = d.m_buffers, !.waiting = "none", !.woken = FALSE,
              !.returned = @ \cup {d.m_buffers[i] : i \in DOMAIN d.m_buffers}]

\* read() from the copy of m_buffers on
PipeWireReadTake(d) ==
    [d EXCEPT !.out = d.m_buffers, !.m_buffers = <<>>,
              !.waiting = "none", !.woken = FALSE,
              !.returned = @ \cup {d.m_buffers[i] : i \in DOMAIN d.m_buffers}]

\* AudioDevPipeWire::read() up to its return or to its wait for
\* m_bufferIsNotEmpty
PipeWireRead(d) ==
    IF d.m_pwStream = "null" THEN [d EXCEPT !.out = <<>>]
    ELSE IF d.m_buffers = <<>>
    THEN [d EXCEPT !.waiting = "read", !.woken = FALSE]
    ELSE PipeWireReadTake(d)

\* write() from the conversion on; converted is whether m_audioConvert
\* returns a packet, size the number of bytes of that packet
PipeWireWriteAppend(d, converted, size) ==
    IF ~converted
    THEN [d |-> [d EXCEPT !.waiting = "none", !.woken = FALSE],
          ret |-> FALSE]
    ELSE [d |-> [d EXCEPT !.m_buffers = @ \o NewBytes(d.bytes, size),
                          !.bytes = @ + size,
                          !.waiting = "none", !.woken = FALSE],
          ret |-> TRUE]

\* AudioDevPipeWire::write(packet) up to its return or to its wait for
\* m_bufferIsNotFull
PipeWireWrite(d, packet, converted, size) ==
    IF ~packet.valid THEN [d |-> d, ret |-> FALSE]
    ELSE IF d.m_pwStream = "null" THEN [d |-> d, ret |-> FALSE]
    ELSE IF Len(d.m_buffers) >= d.m_maxBufferSize
    THEN [d |-> [d EXCEPT !.waiting = "write", !.woken = FALSE],
          ret |-> FALSE]
    ELSE PipeWireWriteAppend(d, converted, size)

\* read() or write() from the return of QWaitCondition::wait() on: the
\* wait returns true when a wakeAll() reached it and false after 1000 ms
PipeWireWaitReturn(d, converted, size) ==
    IF ~d.woken
    THEN [d |-> [d EXCEPT !.waiting = "none", !.out = <<>>], ret |-> FALSE]
    ELSE IF d.waiting = "read"
    THEN [d |-> PipeWireReadTake(d), ret |-> TRUE]
    ELSE PipeWireWriteAppend(d, converted, size)

\* AudioDevPipeWirePrivate::onParamChanged() given a raw audio format from
\* which it computes size
PipeWireOnParamChanged(d, size) ==
    [d EXCEPT !.m_maxBufferSize = size, !.negotiated = TRUE]

\* wakeAll() of the condition that threads in `op` wait on
WakeAll(d, op) == [d EXCEPT !.woken = @ \/ d.waiting = op]

\* Variant of PipeWireOnProcess: the playback branch keeps the bytes it
\* has copied and drops the ones it has not.
PipeWireOnProcess_KeepsCopied(d, dataSize) ==
    IF d.m_isCapture
    THEN LET buffer == NewBytes(d.bytes, dataSize)
             totalSize == IF Len(d.m_buffers) + dataSize < d.m_maxBufferSize
                          THEN Len(d.m_buffers) + dataSize
                          ELSE d.m_maxBufferSize
             prevSize == totalSize - dataSize
         IN  WakeAll([d EXCEPT
                         !.m_buffers =
                             IF dataSize >= d.m_maxBufferSize
                             THEN buffer
                             ELSE Mid(d.m_buffers,
                                      Len(d.m_buffers) - prevSize, prevSize)
                                  \o buffer,
                         !.bytes = @ + dataSize], "read")
    ELSE LET copySize == IF dataSize < Len(d.m_buffers)
                         THEN dataSize ELSE Len(d.m_buffers)
         IN  WakeAll([d EXCEPT !.played = @ \o Mid(d.m_buffers, 0, copySize),
                               !.m_buffers = Mid(@, 0, copySize)], "write")

\* AudioDevPipeWirePrivate::onProcess() given a buffer with data; dataSize
\* is the size of the chunk captured or the room of the buffer to play
PipeWireOnProcess(d, dataSize) ==
    IF d.m_isCapture
    THEN LET buffer == NewBytes(d.bytes, dataSize)
             totalSize == IF Len(d.m_buffers) + dataSize < d.m_maxBufferSize
                          THEN Len(d.m_buffers) + dataSize
                          ELSE d.m_maxBufferSize
             prevSize == totalSize - dataSize
         IN  WakeAll([d EXCEPT
                         !.m_buffers =
                             IF dataSize >= d.m_maxBufferSize
                             THEN buffer
                             ELSE Mid(d.m_buffers,
                                      Len(d.m_buffers) - prevSize, prevSize)
                                  \o buffer,
                         !.bytes = @ + dataSize], "read")
    ELSE LET copySize == IF dataSize < Len(d.m_buffers)
                         THEN dataSize ELSE Len(d.m_buffers)
             remainingSize == Len(d.m_buffers) - copySize
             c == [d EXCEPT !.played = @ \o Mid(d.m_buffers, 0, copySize),
                            !.m_buffers = IF remainingSize > 0
                                          THEN Mid(@, copySize, remainingSize)
                                          ELSE <<>>]
         IN  IF Len(c.m_buffers) < c.m_maxBufferSize
             THEN WakeAll(c, "write") ELSE c

(* ------------------- AudioDevPipeWire: device list -------------------- *)
(* dev holds what the constructor, the destructor and the worker that runs *)
(* pipewireDevicesLoop() share, and the tables the registry callbacks      *)
(* keep. The maps are functions from the ids they hold; m_formats is the  *)
(* set of the names it has an entry for and stands for                     *)
(* m_pinDescriptionMap too, which has the same keys.                       *)
(*   worker   "queued" (handed to m_threadPool, not yet running), "setup"  *)
(*            (m_pwDevicesLoop created), "running" (in pw_main_loop_run)   *)
(*            or "done" (pipewireDevicesLoop() has returned)               *)
(*   m_pwDevicesLoop  "null", "open" or "destroyed" (the pointer is left   *)
(*            as it was by pw_main_loop_destroy)                           *)
(*   quit     pw_main_loop_quit was called                                 *)
(*   dtor     "none", "joining" (in waitForDone), "deleting" (in           *)
(*            `delete d`) or "deleted"                                     *)
(*   live     the ids of the objects the registry has announced and not    *)
(*            removed                                                      *)
(*   emitted  the signals the last callback emitted                        *)
(*   access   whether the last operation used the tables and held m_mutex  *)
(*            ("locked"), used them without ("unlocked"), or did not use   *)
(*            them ("none")                                                *)
(*   nameless a node without a name has been listed                        *)

NewDevices ==
    [worker |-> "queued", m_pwDevicesLoop |-> "null", quit |-> FALSE,
     dtor |-> "none", live |-> {},
     m_defaultSink |-> "", m_defaultSource |-> "",
     m_sinks |-> <<>>, m_sources |-> <<>>, m_formats |-> {},
     m_pinDescriptionMap |-> {},
     m_deviceIds |-> <<>>, emitted |-> <<>>, access |-> "none",
     nameless |-> FALSE]

\* QMap: m[key] = value and m.remove(key)
MapPut(m, key, value) ==
    [k \in DOMAIN m \cup {key} |-> IF k = key THEN value ELSE m[k]]
MapRemove(m, key) ==
    IF DOMAIN m \ {key} = {} THEN <<>>
    ELSE [k \in DOMAIN m \ {key} |-> m[k]]

\* QMap::values().value(0): the value of the least key, "" of an empty map
FirstValue(m) ==
    IF DOMAIN m = {} THEN ""
    ELSE m[CHOOSE k \in DOMAIN m : \A j \in DOMAIN m : k <= j]

\* The media classes deviceAdded() lists nodes of
SupportedClasses ==
    {"Stream/Output/Audio", "Stream/Input/Audio/Internal", "Audio/Source",
     "Audio/Sink"}

\* Variant of DeviceAdded: a sink that is announced becomes the default
\* sink whether there is one or not.
DeviceAdded_LastIsDefault(d, id, mediaClass, nodeName) ==
    IF mediaClass \notin SupportedClasses THEN d
    ELSE LET isSink == mediaClass = "Audio/Sink"
             c == [d EXCEPT
                      !.m_sinks = IF isSink THEN MapPut(@, id, nodeName)
                                  ELSE @,
                      !.m_sources = IF isSink THEN @
                                    ELSE MapPut(@, id, nodeName),
                      !.m_pinDescriptionMap = @ \cup {nodeName},
                      !.m_formats = @ \cup {nodeName},
                      !.m_deviceIds = MapPut(@, id, nodeName),
                      !.access = "unlocked",
                      !.emitted = <<IF isSink THEN "outputsChanged"
                                    ELSE "inputsChanged">>]
             e == IF c.m_defaultSource = "" /\ mediaClass = "Audio/Source"
                  THEN [c EXCEPT !.m_defaultSource = nodeName,
                                 !.emitted = Append(@, "defaultInputChanged")]
                  ELSE c
         IN  IF mediaClass = "Audio/Sink"
             THEN [e EXCEPT !.m_defaultSink = nodeName,
                            !.emitted = Append(@, "defaultOutputChanged")]
             ELSE e

\* AudioDevPipeWirePrivate::deviceAdded() for the object id; mediaClass is
\* "" when the object is no node or has no media class or cannot be bound,
\* nodeName is "" when the node has no name
DeviceAdded(d, id, mediaClass, nodeName) ==
    IF mediaClass \notin SupportedClasses THEN d
    ELSE LET isSink == mediaClass = "Audio/Sink"
             c == [d EXCEPT
                      !.m_sinks = IF isSink THEN MapPut(@, id, nodeName)
                                  ELSE @,
                      !.m_sources = IF isSink THEN @
                                    ELSE MapPut(@, id, nodeName),
                      !.m_pinDescriptionMap = @ \cup {nodeName},
                      !.m_formats = @ \cup {nodeName},
                      !.m_deviceIds = MapPut(@, id, nodeName),
                      !.access = "unlocked",
                      !.emitted = <<IF isSink THEN "outputsChanged"
                                    ELSE "inputsChanged">>]
             e == IF c.m_defaultSource = "" /\ mediaClass = "Audio/Source"
                  THEN [c EXCEPT !.m_defaultSource = nodeName,
                                 !.emitted = Append(@, "defaultInputChanged")]
                  ELSE c
         IN  IF e.m_defaultSink = "" /\ mediaClass = "Audio/Sink"
             THEN [e EXCEPT !.m_defaultSink = nodeName,
                            !.emitted = Append(@, "defaultOutputChanged")]
             ELSE e

\* AudioDevPipeWirePrivate::deviceRemoved() for the object id
DeviceRemoved(d, id) ==
    LET name == IF id \in DOMAIN d.m_deviceIds THEN d.m_deviceIds[id] ELSE ""
        isSink == id \in DOMAIN d.m_sinks
        c == [d EXCEPT
                 !.m_sinks = IF isSink THEN MapRemove(@, id) ELSE @,
                 !.m_sources = IF isSink THEN @ ELSE MapRemove(@, id),
                 !.m_pinDescriptionMap = @ \ {name},
                 !.m_formats = @ \ {name},
                 !.m_deviceIds = MapRemove(@, id),
                 !.access = "unlocked",
                 !.emitted = <<IF isSink THEN "outputsChanged"
                               ELSE "inputsChanged">>]
        e == IF c.m_defaultSource = name
             THEN [c EXCEPT !.m_defaultSource = FirstValue(c.m_sources),
                            !.emitted = Append(@, "defaultInputChanged")]
             ELSE c
    IN  IF name = "" THEN d
        ELSE IF e.m_defaultSink = name
        THEN [e EXCEPT !.m_defaultSink = FirstValue(e.m_sinks),
                       !.emitted = Append(@, "defaultOutputChanged")]
        ELSE e

\* AudioDevPipeWire::inputs() and outputs(): the names the lists hold
Inputs(d) == {d.m_sources[id] : id \in DOMAIN d.m_sources}
Outputs(d) == {d.m_sinks[id] : id \in DOMAIN d.m_sinks}

\* AudioDevPipeWire::defaultInput() and defaultOutput()
DefaultInput(d) ==
    IF d.m_defaultSource = "" THEN FirstValue(d.m_sources)
    ELSE d.m_defaultSource
DefaultOutput(d) ==
    IF d.m_defaultSink = "" THEN FirstValue(d.m_sinks)
    ELSE d.m_defaultSink

(* ------------------------ codec configuration ------------------------ *)
(* conf holds what the encoders derive from their input caps: the output   *)
(* caps and headers they store, the notifications their last operation     *)
(* emitted, and the last call of one of their static helper functions.     *)
(* Spec leaves conf as constructed and has the environment say whether the *)
(* input caps are valid; SpecCaps calls the helper functions, SpecConf     *)
(* follows the configuration through the calls that change it.             *)

\* The largest int.
IntMax == 2147483647

\* faacEncSupportedSampleRates
SupportedSampleRates ==
    <<8000, 11025, 12000, 16000, 22050, 24000, 32000, 44100, 48000, 64000,
      88200, 96000>>

\* *srate - rate leaves the range of int.
SubtractionOverflows(srate, rate) == rate < srate - IntMax

\* Variant of NearestStep: an entry as near as the best so far replaces it.
NearestStep_LastOnTie(best, srate, rate) ==
    LET k == IF srate >= rate THEN srate - rate ELSE rate - srate
    IN  IF best.q < 0 \/ k <= best.q
        THEN [nearest |-> srate, q |-> k]
        ELSE best

\* One turn of the loop of nearestSampleRate: k = qAbs(*srate - rate);
\* if (k < q) {nearest = *srate; q = k;}.  q < 0 stands for the initial
\* std::numeric_limits<quint64>::max().
NearestStep(best, srate, rate) ==
    LET k == IF srate >= rate THEN srate - rate ELSE rate - srate
    IN  IF best.q < 0 \/ k < best.q
        THEN [nearest |-> srate, q |-> k]
        ELSE best

RECURSIVE NearestLoop(_, _, _)
NearestLoop(best, i, rate) ==
    IF i > Len(SupportedSampleRates) THEN best.nearest
    ELSE NearestLoop(NearestStep(best, SupportedSampleRates[i], rate),
                     i + 1, rate)

\* nearestSampleRate(rate): the values it can return.  When a subtraction
\* overflows the behaviour is undefined, and any int may come back; the
\* table entries and the input stand for them.
NearestSampleRate(rate) ==
    IF \E i \in DOMAIN SupportedSampleRates :
           SubtractionOverflows(SupportedSampleRates[i], rate)
    THEN {SupportedSampleRates[i] : i \in DOMAIN SupportedSampleRates}
             \cup {rate}
    ELSE {NearestLoop([nearest |-> rate, q |-> -1], 1, rate)}

\* The rates the helper functions are called with: table entries, the
\* midpoints between neighbours, and the ends of the range of int.
Rates ==
    {-IntMax, 96000 - IntMax - 1, 96000 - IntMax, -1, 0, 1, 7350, 7999,
     8000, 8001, 9512, 9513, 11025, 14000, 16000, 19025, 23025, 28000,
     38050, 44100, 46050, 48000, 56000, 76100, 92100, 96000, 96001,
     192000, IntMax}

\* faacEncSampleRateIndex, without the closing 0
SampleRateIndexTable ==
    <<96000, 88200, 64000, 48000, 44100, 32000, 24000, 22050, 16000, 12000,
      11025, 8000, 7350>>

\* The value sampleRateIndex returns for a rate the table does not hold.
EscapeIndex == 15

\* sampleRateIndex(rate): the loop stops at the closing 0 of the table, so
\* no rate, 0 included, is found there.
RECURSIVE SampleRateIndexLoop(_, _)
SampleRateIndexLoop(i, rate) ==
    IF i >= Len(SampleRateIndexTable) THEN EscapeIndex
    ELSE IF SampleRateIndexTable[i + 1] = rate THEN i
    ELSE SampleRateIndexLoop(i + 1, rate)

SampleRateIndex(rate) == SampleRateIndexLoop(0, rate)

\* Variant of PutBits: the lowest bit of the value comes first.
PutBits_LsbFirst(ba, bits, value) ==
    ba \o [p \in 1..bits |-> (value \div 2 ^ (p - 1)) % 2]

\* putBits(ba, bits, value): ba grows by `bits` bits, and bit i of the
\* value goes to position size - i - 1.
PutBits(ba, bits, value) ==
    ba \o [p \in 1..bits |-> (value \div 2 ^ (bits - p)) % 2]

\* QBitArray::resize(size): cut, or filled up with cleared bits
BitsResize(ba, size) ==
    IF Len(ba) >= size THEN SubSeq(ba, 1, size)
    ELSE ba \o [p \in 1..(size - Len(ba)) |-> 0]

\* Bit i of a bit array, counted from 0, as 0 or 1; 0 past its end.
BitAt(bits, i) == IF i < Len(bits) THEN bits[i + 1] ELSE 0

\* The byte bitsToByteArray builds at index b, counted from 0:
\* bytes[i / 8] |= bit << (7 - i % 8) for the bits i with i / 8 = b.
ByteOfBits(bits, b) ==
    BitAt(bits, 8 * b) * 128 + BitAt(bits, 8 * b + 1) * 64
        + BitAt(bits, 8 * b + 2) * 32 + BitAt(bits, 8 * b + 3) * 16
        + BitAt(bits, 8 * b + 4) * 8 + BitAt(bits, 8 * b + 5) * 4
        + BitAt(bits, 8 * b + 6) * 2 + BitAt(bits, 8 * b + 7)

\* bitsToByteArray(bits)
BitsToByteArray(bits) ==
    [b \in 1..((Len(bits) + 7) \div 8) |-> ByteOfBits(bits, b - 1)]

\* LOW of faac.h, the object type init() configures
LOW == 2

\* The size updateHeaders gives the header
HeaderBytes == 32

\* The sync extension updateHeaders appends to disable SBR.
SyncExtensionType == 695   \* 0x2b7
SbrObjectType == 5

\* The bits updateHeaders puts after the sample rate index: the explicit
\* rate when the index is the escape value, then the channels.
RateAndChannels(ba, sri, rate, channels) ==
    PutBits(IF sri >= EscapeIndex THEN PutBits(ba, 24, rate) ELSE ba,
            4, channels)

\* GASpecificConfig and the sync extension
SpecificConfigTail(ba) ==
    PutBits(PutBits(PutBits(
        PutBits(PutBits(PutBits(ba, 1, 0), 1, 0), 1, 0),
        11, SyncExtensionType), 5, SbrObjectType), 1, 0)

\* The header updateHeaders builds from m_config->aacObjectType and the
\* rate and channels of m_outputCaps.
AudioSpecificConfig(aacObjectType, rate, channels) ==
    BitsToByteArray(BitsResize(
        SpecificConfigTail(
            RateAndChannels(
                PutBits(PutBits(<<>>, 5, aacObjectType),
                        4, SampleRateIndex(rate)),
                SampleRateIndex(rate), rate, channels)),
        HeaderBytes * 8))

\* Raw audio caps: sample format, channels of the layout, rate.
NoAudioCaps == [format |-> "none", channels |-> 0, rate |-> 0]

\* operator bool of AkAudioCaps
AudioCapsValid(caps) ==
    caps.format # "none" /\ caps.channels # 0 /\ caps.rate # 0

\* AkCompressedAudioCaps(), and its operator bool
NoCompressedAudioCaps == [codec |-> "unknown", raw |-> NoAudioCaps]
CompressedAudioCapsValid(caps) ==
    caps.codec # "unknown" /\ AudioCapsValid(caps.raw)

\* The input caps a host sets on the audio encoder.
FaacInputCaps ==
    {NoAudioCaps}
        \cup [format : {"u8", "s16", "s32"}, channels : {1, 2, 6},
              rate : {14000, 44100}]

\* AudioEncoderFaacElement::codecID(codec)
FaacCodecID(codec) == IF codec = "faac" THEN "aac" ELSE "unknown"

\* FaacSampleFormatTable::byFormat(format)->format
FaacByFormat(format) == IF format \in {"s16", "s32"} THEN format ELSE "none"

QBound(min, val, max) ==
    IF val < min THEN min ELSE IF val > max THEN max ELSE val

\* What the audio encoder holds of its configuration: the inputCaps and
\* codec properties of AkAudioEncoder, m_outputCaps, m_headers, and the
\* notifications its last operation emitted.
NewFaacConf ==
    [inputCaps |-> NoAudioCaps, codec |-> "faac",
     m_outputCaps |-> NoCompressedAudioCaps, m_headers |-> <<>>,
     emitted |-> <<>>]

\* emit signal(...)
Emit(c, signal) == [c EXCEPT !.emitted = Append(@, signal)]

\* Variant of StoreOutputCaps: the notification goes out whether or not
\* the caps differ from the stored ones.
StoreOutputCaps_AlwaysNotifies(c, outputCaps) ==
    Emit([c EXCEPT !.m_outputCaps = outputCaps], "outputCapsChanged")

\* if (m_outputCaps == outputCaps) return; m_outputCaps = outputCaps;
\* emit outputCapsChanged(outputCaps)
StoreOutputCaps(c, outputCaps) ==
    IF c.m_outputCaps = outputCaps THEN c
    ELSE Emit([c EXCEPT !.m_outputCaps = outputCaps], "outputCapsChanged")

\* The branch of updateOutputCaps for invalid input caps or an unknown
\* codec
ClearOutputCaps(c, valid, empty) ==
    IF ~valid THEN c
    ELSE Emit([c EXCEPT !.m_outputCaps = empty], "outputCapsChanged")

\* Variant of FaacEqFormat: the input format is kept as it is.
FaacEqFormat_KeepsInput(format) == format

\* The sample format updateOutputCaps picks: the table's entry for the
\* input format, s16 when it has none.
FaacEqFormat(format) ==
    IF FaacByFormat(format) = "none" THEN FaacByFormat("s16")
    ELSE FaacByFormat(format)

\* updateOutputCaps(inputCaps); rate is what nearestSampleRate returns
FaacUpdateOutputCaps(c, inputCaps, rate) ==
    IF ~AudioCapsValid(inputCaps) \/ FaacCodecID(c.codec) = "unknown"
    THEN ClearOutputCaps(c, CompressedAudioCapsValid(c.m_outputCaps),
                         NoCompressedAudioCaps)
    ELSE StoreOutputCaps(c,
             [codec |-> FaacCodecID(c.codec),
              raw |-> [format |-> FaacEqFormat(inputCaps.format),
                       channels |-> QBound(1, inputCaps.channels, 2),
                       rate |-> rate]])

\* Variant of StoreHeaders: the notification goes out whether or not the
\* headers differ from the stored ones.
StoreHeaders_AlwaysNotifies(c, headers) ==
    Emit([c EXCEPT !.m_headers = headers], "headersChanged")

\* if (m_headers == headers) return; m_headers = headers;
\* emit headersChanged(headers)
StoreHeaders(c, headers) ==
    IF c.m_headers = headers THEN c
    ELSE Emit([c EXCEPT !.m_headers = headers], "headersChanged")

\* updateHeaders()
FaacUpdateHeaders(c) ==
    StoreHeaders(c, AudioSpecificConfig(LOW, c.m_outputCaps.raw.rate,
                                        c.m_outputCaps.raw.channels))

\* AkFrac()
NoFps == [num |-> 0, den |-> 0]

\* Raw video caps: pixel format, width, height, frame rate.
NoVideoCaps == [format |-> "none", width |-> 0, height |-> 0, fps |-> NoFps]

\* operator bool of AkVideoCaps
VideoCapsValid(caps) ==
    caps.format # "none" /\ caps.width # 0 /\ caps.height # 0

\* AkCompressedVideoCaps(), and its operator bool
NoCompressedVideoCaps == [codec |-> "unknown", raw |-> NoVideoCaps]
CompressedVideoCapsValid(caps) ==
    caps.codec # "unknown" /\ VideoCapsValid(caps.raw)

\* The input caps a host sets on the video encoder.
Rav1eInputCaps ==
    {NoVideoCaps}
        \cup [format : {"rgb24", "yuv420p", "yuv444p10"}, width : {640},
              height : {480},
              fps : {NoFps, [num |-> 30, den |-> 1], [num |-> 25, den |-> 1]}]

\* VideoEncoderRav1eElement::codecID(codec)
Rav1eCodecID(codec) == IF codec = "rav1e" THEN "av1" ELSE "unknown"

\* Av1PixFormatTable::byPixFormat(format)->pixFormat
ByPixFormat(format) ==
    IF format \in {"y8", "y10", "y12", "yuv420p", "yuv420p10", "yuv420p12",
                   "yuv422p", "yuv422p10", "yuv422p12", "yuv444p",
                   "yuv444p10", "yuv444p12"}
    THEN format ELSE "none"

\* The pixel format updateOutputCaps picks
Rav1eEqFormat(format) ==
    IF ByPixFormat(format) = "none" THEN ByPixFormat("yuv420p")
    ELSE ByPixFormat(format)

\* The frame rate updateOutputCaps picks: 30/1 for one that is not valid
Rav1eFps(fps) ==
    IF fps.num = 0 \/ fps.den = 0 THEN [num |-> 30, den |-> 1] ELSE fps

NewRav1eConf ==
    [inputCaps |-> NoVideoCaps, codec |-> "rav1e",
     m_outputCaps |-> NoCompressedVideoCaps, m_headers |-> <<>>,
     emitted |-> <<>>]

\* updateOutputCaps(inputCaps) of the video encoder; the bitrate property
\* keeps its value and is left out of the caps
Rav1eUpdateOutputCaps(c, inputCaps) ==
    IF ~VideoCapsValid(inputCaps) \/ Rav1eCodecID(c.codec) = "unknown"
    THEN ClearOutputCaps(c, CompressedVideoCapsValid(c.m_outputCaps),
                         NoCompressedVideoCaps)
    ELSE StoreOutputCaps(c,
             [codec |-> Rav1eCodecID(c.codec),
              raw |-> [format |-> Rav1eEqFormat(inputCaps.format),
                       width |-> inputCaps.width,
                       height |-> inputCaps.height,
                       fps |-> Rav1eFps(inputCaps.fps)]])

\* What rav1e_container_sequence_header returns: no header (<<>> here), or
\* the bytes of one.
SequenceHeaders == {<<>>, <<10, 11>>, <<10, 12>>}

\* updateHeaders() of the video encoder
Rav1eUpdateHeaders(c, ravieHeaders) ==
    IF ravieHeaders = <<>> THEN c ELSE StoreHeaders(c, ravieHeaders)

\* The last call of a static helper function: its name, argument, result.
NoProbe == [op |-> "none", in |-> 0, out |-> 0]

NewConf ==
    [probe |-> NoProbe, faac |-> NewFaacConf, rav1e |-> NewRav1eConf]

(* ------------------------------ actions ------------------------------- *)

\* The last call made on the driven element.
Call(op, from, target, ret, at) ==
    [op |-> op, from |-> from, target |-> target, ret |-> ret, at |-> at]

\* A setState(state) call on the element d that returns r: the element
\* becomes r.d, and the call is noted.
Returns(d, dNext, r, state) ==
    /\ dNext = r.d
    /\ last' = Call("setState", d.state, state, r.ret, r.at)

NewPacketSync(loaded) ==
    [loaded |-> loaded, state |-> "Null", audioEnabled |-> TRUE,
     discardLast |-> FALSE, audio |-> <<>>, video |-> <<>>]

\* VideoMuxerWebmElementPrivate as constructed
NewMux(loaded, cuesBeforeClusters) ==
    [state |-> "Null", m_paused |-> FALSE, m_initialized |-> FALSE,
     m_audioTrackIndex |-> 0, m_videoTrackIndex |-> 0,
     m_audioDuration |-> Zero, m_videoDuration |-> Zero,
     m_cuesBeforeClusters |-> cuesBeforeClusters,
     m_writer |-> "closed", file |-> "absent", m_muxerSegment |-> <<>>,
     m_packetSync |-> NewPacketSync(loaded)]

MuxSetStateCall(state) ==
    /\ element = "mux"
    /\ \E init \in IF mux.state = "Null" /\ state # "Null"
                   THEN MuxInitEnvs ELSE {QuietMuxInit},
          uninit \in IF mux.state # "Null" /\ state = "Null"
                     THEN {e \in UninitEnvs :
                              mux.m_cuesBeforeClusters \/ e.cueFault = "none"}
                     ELSE {QuietUninit} :
          Returns(mux, mux', MuxSetState(mux, state, init, uninit), state)
    /\ UNCHANGED <<thr, dev, element, faac, rav1e, conf, pw>>

\* iStream(packet); addFrame is what the AddFrame calls made on the way
\* return.  A call in which AddFrame failed is noted as ending at
\* "AddFrame".
MuxIStreamCall ==
    /\ element = "mux"
    /\ mux.state = "Playing" => MuxAccepted(mux) < MaxPackets
    /\ \E packet \in Packets(mux.state), addFrame \in BOOLEAN :
          /\ mux' = IF addFrame THEN MuxIStream(mux, packet)
                    ELSE MuxAddFrameFailed(MuxIStream(mux, packet))
          /\ last' = Call("iStream", mux.state, mux.state, TRUE,
                          IF ~addFrame /\ Len(MuxFrames(mux'))
                                              > Len(MuxFrames(mux))
                          THEN "AddFrame" ELSE "none")
    /\ UNCHANGED <<thr, dev, element, faac, rav1e, conf, pw>>

\* AudioEncoderFaacElementPrivate as constructed
NewFaac(loaded) ==
    [state |-> "Null", m_paused |-> FALSE, m_initialized |-> FALSE,
     m_encoder |-> "null", m_pts |-> 0, m_encodedTimePts |-> 0,
     m_fillAudioGaps |-> [loaded |-> loaded, state |-> "Null"],
     calls |-> <<>>, oStream |-> <<>>, closes |-> 0]

\* VideoEncoderRav1eElementPrivate as constructed
NewRav1e(loaded) ==
    [state |-> "Null", m_paused |-> FALSE, m_initialized |-> FALSE,
     m_encoder |-> "null", m_encodedTimePts |-> 0,
     m_fpsControl |-> [loaded |-> loaded],
     calls |-> <<>>, oStream |-> 0, config |-> "none"]

FaacSetStateCall(state) ==
    /\ element = "faac"
    /\ \E init \in IF faac.state = "Null" /\ state # "Null"
                   THEN FaacInitEnvs ELSE {QuietFaacInit} :
          Returns(faac, faac', FaacSetState(faac, state, init), state)
    /\ UNCHANGED <<thr, dev, element, mux, rav1e, conf, pw>>

FaacIAudioStreamCall ==
    /\ element = "faac"
    /\ faac.state = "Playing" => Len(faac.calls) < MaxPackets
    /\ \E packet \in FaacPackets(faac.state), written \in {-1, 0, 1} :
          /\ faac' = FaacIAudioStream(faac, packet, written)
          /\ last' = Call("iStream", faac.state, faac.state, TRUE,
                          IF written < 0 /\ Len(faac'.calls) > Len(faac.calls)
                          THEN "faacEncEncode" ELSE "none")
    /\ UNCHANGED <<thr, dev, element, mux, rav1e, conf, pw>>

Rav1eSetStateCall(state) ==
    /\ element = "rav1e"
    /\ \E init \in IF rav1e.state = "Null" /\ state # "Null"
                   THEN Rav1eInitEnvs ELSE {QuietRav1eInit},
          pending \in IF rav1e.state # "Null" /\ state = "Null"
                      THEN 0..1 ELSE {0} :
          Returns(rav1e, rav1e',
                  Rav1eSetState(rav1e, state, init, pending), state)
    /\ UNCHANGED <<thr, dev, element, mux, faac, conf, pw>>

Rav1eIVideoStreamCall ==
    /\ element = "rav1e"
    /\ rav1e.state = "Playing" => Len(rav1e.calls) < MaxPackets
    /\ \E packet \in Rav1ePackets(rav1e.state), discard \in BOOLEAN,
          converted \in BOOLEAN, env \in Rav1eEncodeEnvs :
          /\ rav1e' = Rav1eIVideoStream(rav1e, packet, discard, converted,
                                        env)
          /\ last' = Call("iStream", rav1e.state, rav1e.state, TRUE, "none")
    /\ UNCHANGED <<thr, dev, element, mux, faac, conf, pw>>

\* The host constructs one element and drives it; the other two stay as
\* constructed.
\* No call is in progress on any thread.
NoThreads ==
    [control |-> "idle", deliver |-> "idle", pending |-> <<>>,
     env |-> QuietUninit, syncLocks |-> FALSE, hit |-> "none",
     target |-> "Null", sent |-> "none", returned |-> <<>>, emitted |-> <<>>,
     spin |-> FALSE]

ElementsConstructed ==
    /\ mux \in {NewMux(loaded, cues) :
                   loaded \in IF element = "mux" THEN BOOLEAN ELSE {TRUE},
                   cues \in IF element = "mux" THEN BOOLEAN ELSE {FALSE}}
    /\ faac \in {NewFaac(loaded) :
                    loaded \in IF element = "faac" THEN BOOLEAN ELSE {TRUE}}
    /\ rav1e \in {NewRav1e(loaded) :
                     loaded \in IF element = "rav1e" THEN BOOLEAN ELSE {TRUE}}
    /\ last = Call("none", "Null", "Null", TRUE, "none")
    /\ conf = NewConf
    /\ pw = NewPipeWire
    /\ dev = NewDevices

Constructed == ElementsConstructed /\ thr = NoThreads

Init == element \in Elements /\ Constructed

Next ==
    \/ \E state \in ElementStates : MuxSetStateCall(state)
    \/ MuxIStreamCall
    \/ \E state \in ElementStates : FaacSetStateCall(state)
    \/ FaacIAudioStreamCall
    \/ \E state \in ElementStates : Rav1eSetStateCall(state)
    \/ Rav1eIVideoStreamCall

Spec == Init /\ [][Next]_vars

(* ---------------- the encoders' configuration, driven ----------------- *)

NearestSampleRateCall ==
    /\ \E rate \in Rates :
          \E out \in NearestSampleRate(rate) :
              conf' = [conf EXCEPT !.probe = [op |-> "nearestSampleRate",
                                              in |-> rate, out |-> out]]
    /\ UNCHANGED <<thr, dev, element, mux, faac, rav1e, last, pw>>

\* updateHeaders with the object type init() configures, for every rate
\* output caps can have, 0 of empty caps included, and for rates the index
\* table does not hold
UpdateHeadersCall ==
    /\ \E rate \in {SupportedSampleRates[i] : i \in DOMAIN SupportedSampleRates}
                     \cup {0, 7350, 14000, 16777215},
          channels \in {0, 1, 2, 15} :
          conf' = [conf EXCEPT !.probe =
                       [op |-> "updateHeaders",
                        in |-> [rate |-> rate, channels |-> channels],
                        out |-> AudioSpecificConfig(LOW, rate, channels)]]
    /\ UNCHANGED <<thr, dev, element, mux, faac, rav1e, last, pw>>

NextCaps ==
    \/ NearestSampleRateCall
    \/ UpdateHeadersCall

SpecCaps == Init /\ [][NextCaps]_vars

(* The encoders with their configuration: the host sets input caps and   *)
(* codec and drives the state; what init() needs of the input caps is    *)
(* read from conf.                                                       *)

\* A new operation starts: the notifications noted are the last one's.
Quiet(c) == [c EXCEPT !.emitted = <<>>]

\* The inputCapsChanged signal of AkAudioEncoder, connected to
\* updateOutputCaps
FaacInputCapsChanged ==
    /\ element = "faac"
    /\ \E inputCaps \in FaacInputCaps :
          \E rate \in NearestSampleRate(inputCaps.rate) :
              conf' = [conf EXCEPT !.faac =
                          FaacUpdateOutputCaps(
                              [Quiet(@) EXCEPT !.inputCaps = inputCaps],
                              inputCaps, rate)]
    /\ last' = Call("inputCapsChanged", faac.state, faac.state, TRUE, "none")
    /\ UNCHANGED <<thr, dev, element, mux, faac, rav1e, pw>>

\* setCodec(codec) of AkAudioEncoder; codecs() holds "faac" only
FaacSetCodec ==
    /\ element = "faac"
    /\ \E codec \in {"faac", "other"} :
          conf' = [conf EXCEPT !.faac = [Quiet(@) EXCEPT !.codec = codec]]
    /\ last' = Call("setCodec", faac.state, faac.state, TRUE, "none")
    /\ UNCHANGED <<thr, dev, element, mux, faac, rav1e, pw>>

\* init() ran and returned true in the setState call that returned r.
InitDone(d, state, r) == d.state = "Null" /\ state # "Null" /\ r.ret

\* setState(state) of the audio encoder; init() finds the input caps of
\* conf and, when nothing fails, updates the headers
FaacSetStateConf(state) ==
    /\ element = "faac"
    /\ \E fault \in IF faac.state = "Null" /\ state # "Null"
                    THEN FaacInitFaults ELSE {"none"} :
          LET r == FaacSetState(
                       faac, state,
                       [inputCaps |-> AudioCapsValid(conf.faac.inputCaps),
                        fault |-> fault])
          IN  /\ Returns(faac, faac', r, state)
              /\ conf' = [conf EXCEPT !.faac =
                             IF InitDone(faac, state, r)
                             THEN FaacUpdateHeaders(Quiet(@))
                             ELSE Quiet(@)]
    /\ UNCHANGED <<thr, dev, element, mux, rav1e, pw>>

\* The inputCapsChanged signal of AkVideoEncoder, connected to
\* updateOutputCaps
Rav1eInputCapsChanged ==
    /\ element = "rav1e"
    /\ \E inputCaps \in Rav1eInputCaps :
          conf' = [conf EXCEPT !.rav1e =
                      Rav1eUpdateOutputCaps(
                          [Quiet(@) EXCEPT !.inputCaps = inputCaps],
                          inputCaps)]
    /\ last' = Call("inputCapsChanged", rav1e.state, rav1e.state, TRUE,
                    "none")
    /\ UNCHANGED <<thr, dev, element, mux, faac, rav1e, pw>>

\* setCodec(codec) of AkVideoEncoder; codecs() holds "rav1e" only
Rav1eSetCodec ==
    /\ element = "rav1e"
    /\ \E codec \in {"rav1e", "other"} :
          conf' = [conf EXCEPT !.rav1e = [Quiet(@) EXCEPT !.codec = codec]]
    /\ last' = Call("setCodec", rav1e.state, rav1e.state, TRUE, "none")
    /\ UNCHANGED <<thr, dev, element, mux, faac, rav1e, pw>>

\* setState(state) of the video encoder
Rav1eSetStateConf(state) ==
    /\ element = "rav1e"
    /\ \E fault \in IF rav1e.state = "Null" /\ state # "Null"
                    THEN Rav1eInitFaults ELSE {"none"},
          pending \in IF rav1e.state # "Null" /\ state = "Null"
                      THEN 0..1 ELSE {0},
          ravieHeaders \in IF rav1e.state = "Null" /\ state # "Null"
                           THEN SequenceHeaders ELSE {<<>>} :
          LET r == Rav1eSetState(
                       rav1e, state,
                       [inputCaps |-> VideoCapsValid(conf.rav1e.inputCaps),
                        fault |-> fault],
                       pending)
          IN  /\ Returns(rav1e, rav1e', r, state)
              /\ conf' = [conf EXCEPT !.rav1e =
                             IF InitDone(rav1e, state, r)
                             THEN Rav1eUpdateHeaders(Quiet(@), ravieHeaders)
                             ELSE Quiet(@)]
    /\ UNCHANGED <<thr, dev, element, mux, faac, pw>>

NextConf ==
    \/ FaacInputCapsChanged
    \/ FaacSetCodec
    \/ \E state \in ElementStates : FaacSetStateConf(state)
    \/ Rav1eInputCapsChanged
    \/ Rav1eSetCodec
    \/ \E state \in ElementStates : Rav1eSetStateConf(state)

\* One of the two encoders as constructed
InitConf == element \in {"faac", "rav1e"} /\ Constructed

SpecConf == InitConf /\ [][NextConf]_vars

(* The operations behind the entry points, called as the helpers, init()  *)
(* and the destructors call them, and the audio device driven by its      *)
(* host.                                                                  *)

\* encodeFrame(src), as the oStream signal of the helper calls it while
\* the encoder is initialized; a call with an invalid packet is noted as
\* "empty"
EncodeFrameCall ==
    \/ /\ element = "faac"
       /\ faac.m_initialized /\ faac.m_fillAudioGaps.loaded
       /\ Len(faac.calls) < MaxPackets
       /\ \E src \in FaacPackets(faac.state), written \in {-1, 0, 1} :
             /\ faac' = FaacEncodeFrame(faac, src, written)
             /\ last' = Call("encodeFrame", faac.state, faac.state, TRUE,
                             IF src.valid THEN "none" ELSE "empty")
       /\ UNCHANGED <<thr, dev, element, mux, rav1e, conf, pw>>
    \/ /\ element = "rav1e"
       /\ rav1e.m_initialized /\ rav1e.m_fpsControl.loaded
       /\ Len(rav1e.calls) < MaxPackets
       /\ \E src \in Rav1ePackets(rav1e.state), env \in Rav1eEncodeEnvs :
             /\ rav1e' = Rav1eEncodeFrame(rav1e, src, env)
             /\ last' = Call("encodeFrame", rav1e.state, rav1e.state, TRUE,
                             IF src.valid THEN "none" ELSE "empty")
       /\ UNCHANGED <<thr, dev, element, mux, faac, conf, pw>>

\* uninit() of an element in state Null, as init() and the destructor
\* call it
UninitCall ==
    /\ \/ /\ element = "mux" /\ mux.state = "Null"
          /\ \E env \in UninitEnvs : mux' = MuxUninit(mux, env)
          /\ UNCHANGED <<faac, rav1e>>
       \/ /\ element = "faac" /\ faac.state = "Null"
          /\ faac' = FaacUninit(faac)
          /\ UNCHANGED <<mux, rav1e>>
       \/ /\ element = "rav1e" /\ rav1e.state = "Null"
          /\ \E pending \in 0..1 : rav1e' = Rav1eUninit(rav1e, pending)
          /\ UNCHANGED <<mux, faac>>
    /\ last' = Call("uninit", "Null", "Null", TRUE, "none")
    /\ UNCHANGED <<thr, dev, element, conf, pw>>

\* init(device, caps) on the thread that controls the device, which may
\* be another thread than the one that reads and writes
\* Caps init() is called with: a format of the table, a planar one, and
\* caps of no format
PwCaps ==
    {[format |-> "s16le", planar |-> FALSE],
     [format |-> "fltle", planar |-> TRUE],
     [format |-> "none", planar |-> FALSE]}

PwInitCall ==
    /\ element = "pipewire"
    /\ \E caps \in PwCaps,
          fault \in {"none", "pw_thread_loop_new", "pw_context_new",
                     "pw_thread_loop_start", "pw_context_connect",
                     "pw_stream_new"}, capture \in BOOLEAN :
          LET r == PipeWireInit([pw EXCEPT !.calls = <<>>, !.bytes = 0,
                                           !.negotiated = FALSE,
                                           !.played = <<>>,
                                           !.returned = {}],
                                caps, fault, capture)
          IN  /\ pw' = r.d
              /\ last' = Call("init", "Null", "Null", r.ret, fault)
    /\ UNCHANGED <<thr, dev, element, mux, faac, rav1e, conf>>

PwUninitCall ==
    /\ element = "pipewire"
    /\ pw' = PipeWireUninit([pw EXCEPT !.calls = <<>>])
    /\ last' = Call("uninit", "Null", "Null", TRUE, "none")
    /\ UNCHANGED <<thr, dev, element, mux, faac, rav1e, conf>>

\* write(packet) up to its return or its wait; a call with an invalid
\* packet is noted as "empty", one that waits as "wait"
PwWriteCall ==
    /\ element = "pipewire"
    /\ pw.waiting = "none"
    /\ \E packet \in [valid : BOOLEAN], converted \in BOOLEAN,
          size \in 1..MaxChunk :
          /\ pw.bytes + size <= MaxBytes
          /\ LET r == PipeWireWrite([pw EXCEPT !.calls = <<>>], packet,
                                    converted, size)
             IN  /\ pw' = r.d
                 /\ last' = Call("write", "Null", "Null", r.ret,
                                 IF ~packet.valid THEN "empty"
                                 ELSE IF r.d.waiting = "write" THEN "wait"
                                 ELSE "none")
    /\ UNCHANGED <<thr, dev, element, mux, faac, rav1e, conf>>

\* read() up to its return or its wait
PwReadCall ==
    /\ element = "pipewire"
    /\ pw.waiting = "none"
    /\ pw' = PipeWireRead([pw EXCEPT !.calls = <<>>])
    /\ last' = Call("read", "Null", "Null", pw'.out # <<>>,
                    IF pw'.waiting = "read" THEN "wait" ELSE "none")
    /\ UNCHANGED <<thr, dev, element, mux, faac, rav1e, conf>>

\* The wait of read() or write() ends and the call returns.
PwWaitReturn ==
    /\ element = "pipewire"
    /\ pw.waiting # "none"
    /\ \E converted \in BOOLEAN, size \in 1..MaxChunk :
          /\ pw.bytes + size <= MaxBytes \/ ~pw.woken \/ pw.waiting = "read"
          /\ LET r == PipeWireWaitReturn([pw EXCEPT !.calls = <<>>],
                                         converted, size)
             IN  /\ pw' = r.d
                 /\ last' = Call(pw.waiting, "Null", "Null", r.ret,
                                 IF pw.woken THEN "woken" ELSE "timeout")
    /\ UNCHANGED <<thr, dev, element, mux, faac, rav1e, conf>>

\* The stream's loop thread calls onParamChanged() with a format.
PwOnParamChanged ==
    /\ element = "pipewire"
    /\ pw.m_pwStream # "null"
    /\ \E size \in 1..MaxBuffers :
          pw' = PipeWireOnParamChanged([pw EXCEPT !.calls = <<>>], size)
    /\ last' = Call("onParamChanged", "Null", "Null", TRUE, "none")
    /\ UNCHANGED <<thr, dev, element, mux, faac, rav1e, conf>>

\* The stream's loop thread calls onProcess() with a buffer, which it does
\* once the stream has a format.
PwOnProcess ==
    /\ element = "pipewire"
    /\ pw.m_pwStream # "null"
    /\ pw.negotiated
    /\ \E dataSize \in 0..MaxChunk :
          /\ pw.m_isCapture => pw.bytes + dataSize <= MaxBytes
          /\ pw' = PipeWireOnProcess([pw EXCEPT !.calls = <<>>], dataSize)
    /\ last' = Call("onProcess", "Null", "Null", TRUE, "none")
    /\ UNCHANGED <<thr, dev, element, mux, faac, rav1e, conf>>

NextCalls ==
    \/ \E state \in ElementStates : MuxSetStateCall(state)
    \/ \E state \in ElementStates : FaacSetStateCall(state)
    \/ \E state \in ElementStates : Rav1eSetStateCall(state)
    \/ EncodeFrameCall
    \/ UninitCall
    \/ PwInitCall
    \/ PwUninitCall
    \/ PwWriteCall
    \/ PwWaitReturn

\* An element or the audio device as constructed
InitCalls == element \in Elements \cup {"pipewire"} /\ Constructed

SpecCalls == InitCalls /\ [][NextCalls]_vars

(* SpecStream follows one audio device through init(), uninit(), read()    *)
(* and write() and the callbacks of its stream; SpecStreamFair adds that a *)
(* wait with a timeout ends.                                               *)

NextStream ==
    \/ PwInitCall
    \/ PwUninitCall
    \/ PwWriteCall
    \/ PwReadCall
    \/ PwWaitReturn
    \/ PwOnParamChanged
    \/ PwOnProcess

InitStream == element = "pipewire" /\ Constructed

SpecStream == InitStream /\ [][NextStream]_vars

SpecStreamFair == SpecStream /\ WF_vars(PwWaitReturn)

(* SpecDevices follows one audio device object from its constructor to its *)
(* destructor: the worker that runs pipewireDevicesLoop(), the registry    *)
(* callbacks that worker dispatches, the accessors of the device list      *)
(* called by the application, and the destructor.                          *)

\* The node names the registry announces; "" is a node without a name
NodeNames == {"", "a", "b"}

\* pipewireDevicesLoop() starts on a thread of m_threadPool and creates
\* the main loop, or returns when it gets none.
PwWorkerStart ==
    /\ element = "pipewire"
    /\ dev.worker = "queued"
    /\ \E fault \in {"none", "pw_main_loop_new"} :
          /\ dev' = IF fault = "none"
                    THEN [dev EXCEPT !.worker = "setup",
                                     !.m_pwDevicesLoop = "open"]
                    ELSE [dev EXCEPT !.worker = "done"]
          /\ last' = Call("pipewireDevicesLoop", "Null", "Null",
                          fault = "none", fault)
    /\ UNCHANGED <<thr, element, mux, faac, rav1e, conf, pw>>

\* pipewireDevicesLoop() from pw_context_new to pw_main_loop_run; when a
\* call fails it destroys the main loop and returns.
PwWorkerSetup ==
    /\ element = "pipewire"
    /\ dev.worker = "setup"
    /\ \E fault \in {"none", "pw_context_new", "pw_context_connect",
                     "pw_core_get_registry"} :
          /\ dev' = IF fault = "none"
                    THEN [dev EXCEPT !.worker = "running"]
                    ELSE [dev EXCEPT !.worker = "done",
                                     !.m_pwDevicesLoop = "destroyed"]
          /\ last' = Call("pipewireDevicesLoop", "Null", "Null",
                          fault = "none", fault)
    /\ UNCHANGED <<thr, element, mux, faac, rav1e, conf, pw>>

\* pw_main_loop_run returns after pw_main_loop_quit, and
\* pipewireDevicesLoop() destroys what it created and returns.
PwWorkerExit ==
    /\ element = "pipewire"
    /\ dev.worker = "running" /\ dev.quit
    /\ dev' = [dev EXCEPT !.worker = "done", !.m_pwDevicesLoop = "destroyed"]
    /\ last' = Call("pipewireDevicesLoop", "Null", "Null", TRUE, "quit")
    /\ UNCHANGED <<thr, element, mux, faac, rav1e, conf, pw>>

\* The registry announces an object with an id that no live object has,
\* and the worker calls deviceAdded().
PwDeviceAdded ==
    /\ element = "pipewire"
    /\ dev.worker = "running"
    /\ \E id \in (1..MaxIds) \ dev.live,
          mediaClass \in {"Audio/Sink", "Audio/Source",
                         "Stream/Output/Audio", ""},
          nodeName \in NodeNames :
          /\ dev' = DeviceAdded([dev EXCEPT
                                    !.live = @ \cup {id},
                                    !.emitted = <<>>, !.access = "none",
                                    !.nameless =
                                        @ \/ (/\ nodeName = ""
                                              /\ mediaClass
                                                     \in SupportedClasses)],
                                id, mediaClass, nodeName)
          /\ last' = Call("deviceAdded", "Null", "Null", TRUE, mediaClass)
    /\ UNCHANGED <<thr, element, mux, faac, rav1e, conf, pw>>

\* The registry withdraws a live object, and the worker calls
\* deviceRemoved(); the id is "unknown" when none of the maps has it.
PwDeviceRemoved ==
    /\ element = "pipewire"
    /\ dev.worker = "running"
    /\ \E id \in dev.live :
          /\ dev' = DeviceRemoved([dev EXCEPT !.live = @ \ {id},
                                              !.emitted = <<>>,
                                              !.access = "none"], id)
          /\ last' = Call("deviceRemoved", "Null", "Null", TRUE,
                          IF id \in DOMAIN dev.m_deviceIds
                          THEN "known" ELSE "unknown")
    /\ UNCHANGED <<thr, element, mux, faac, rav1e, conf, pw>>

\* A node reports a format, and the worker calls readFormats(); known is
\* whether SampleFormat has the format.
PwReadFormats ==
    /\ element = "pipewire"
    /\ dev.worker = "running"
    /\ \E id \in DOMAIN dev.m_deviceIds, known \in BOOLEAN :
          dev' = IF known
                 THEN [dev EXCEPT !.m_formats = @ \cup {dev.m_deviceIds[id]},
                                  !.emitted = <<>>, !.access = "unlocked"]
                 ELSE [dev EXCEPT !.emitted = <<>>, !.access = "none"]
    /\ last' = Call("readFormats", "Null", "Null", TRUE, "none")
    /\ UNCHANGED <<thr, element, mux, faac, rav1e, conf, pw>>

\* The application calls one of the accessors of the device list, which
\* lock m_mutex around what they read.
PwAccessorCall ==
    /\ element = "pipewire"
    /\ dev.dtor = "none"
    /\ \E op \in {"defaultOutput", "outputs", "supportedFormats"} :
          last' = Call(op, "Null", "Null", TRUE, "none")
    /\ dev' = [dev EXCEPT !.emitted = <<>>, !.access = "locked"]
    /\ UNCHANGED <<thr, element, mux, faac, rav1e, conf, pw>>

\* AudioDevPipeWire::~AudioDevPipeWire() up to waitForDone(), or up to
\* `delete d` when it finds m_pwDevicesLoop null
PwDestructorCall ==
    /\ element = "pipewire"
    /\ dev.dtor = "none"
    /\ pw' = PipeWireUninit([pw EXCEPT !.calls = <<>>])
    /\ dev' = IF dev.m_pwDevicesLoop # "null"
              THEN [dev EXCEPT !.quit = TRUE, !.dtor = "joining",
                               !.emitted = <<>>, !.access = "none"]
              ELSE [dev EXCEPT !.dtor = "deleting",
                               !.emitted = <<>>, !.access = "none"]
    /\ last' = Call("destructor", "Null", "Null", TRUE,
                    IF dev.m_pwDevicesLoop = "destroyed"
                    THEN "quit destroyed loop" ELSE "none")
    /\ UNCHANGED <<thr, element, mux, faac, rav1e, conf>>

\* waitForDone() returns when the worker has returned; or `delete d`,
\* which destroys m_threadPool and so waits for the worker too, is done.
PwDestructorJoined ==
    /\ element = "pipewire"
    /\ dev.dtor \in {"joining", "deleting"}
    /\ dev.worker = "done"
    /\ dev' = [dev EXCEPT !.dtor = IF @ = "joining" THEN "deleting"
                                   ELSE "deleted",
                          !.emitted = <<>>, !.access = "none"]
    /\ last' = Call("destructor", "Null", "Null", TRUE, "none")
    /\ UNCHANGED <<thr, element, mux, faac, rav1e, conf, pw>>

NextDevices ==
    \/ PwWorkerStart
    \/ PwWorkerSetup
    \/ PwWorkerExit
    \/ PwDeviceAdded
    \/ PwDeviceRemoved
    \/ PwReadFormats
    \/ PwAccessorCall
    \/ PwDestructorCall
    \/ PwDestructorJoined

SpecDevices == InitStream /\ [][NextDevices]_vars


(* ------------------------------ claims -------------------------------- *)

\* The life-cycle fields every element has.
Lifecycle(d) ==
    [state |-> d.state, m_paused |-> d.m_paused,
     m_initialized |-> d.m_initialized]

\* The element the host drives.
Driven ==
    Lifecycle(IF element = "mux" THEN mux
              ELSE IF element = "faac" THEN faac ELSE rav1e)

\* The call just made was setState(target) in state from.
SetStateFrom(call, froms, targets) ==
    call.op = "setState" /\ call.from \in froms /\ call.target \in targets

\* C1: when setState(Paused) or setState(Playing) is called in state Null
\* and init() fails, setState returns false and the element is left in
\* state Null with m_initialized and m_paused false (muxer, FAAC, rav1e).
C1_FailedInitStaysNull ==
    (SetStateFrom(last, {"Null"}, {"Paused", "Playing"}) /\ last.at # "none")
        => /\ ~last.ret
           /\ Driven = [state |-> "Null", m_paused |-> FALSE,
                        m_initialized |-> FALSE]

C1_Witness ==
    /\ element = "mux"
    /\ SetStateFrom(last, {"Null"}, {"Paused"})
    /\ last.at = "AddVideoTrack"

\* C2: after a Paused->Null or Playing->Null transition m_initialized and
\* m_paused are false, the output file or encoder handle is closed, and the
\* running counters (muxer durations and track indices, encoder pts and
\* encodedTimePts) are zero.
C2_TeardownResetsAll ==
    SetStateFrom(last, {"Paused", "Playing"}, {"Null"})
        => /\ Driven = [state |-> "Null", m_paused |-> FALSE,
                        m_initialized |-> FALSE]
           /\ element = "mux"
                  => /\ mux.m_writer = "closed"
                     /\ mux.m_audioDuration = Zero
                     /\ mux.m_videoDuration = Zero
                     /\ mux.m_audioTrackIndex = 0
                     /\ mux.m_videoTrackIndex = 0
           /\ element = "faac"
                  => /\ faac.m_encoder = "null"
                     /\ faac.m_pts = 0
                     /\ faac.m_encodedTimePts = 0

\* C3: a packet passed to iStream / iAudioStream / iVideoStream while the
\* element is Paused or Null is discarded: no packet held by the helper,
\* encoded or written to the container was submitted in another state than
\* Playing, whatever transitions followed.
C3_PausedAndNullPacketsDiscarded ==
    /\ \A i \in DOMAIN mux.m_packetSync.audio :
           mux.m_packetSync.audio[i].at = "Playing"
    /\ \A i \in DOMAIN mux.m_packetSync.video :
           mux.m_packetSync.video[i].at = "Playing"
    /\ \A i \in DOMAIN mux.m_muxerSegment :
           mux.m_muxerSegment[i].call = "AddFrame"
               => mux.m_muxerSegment[i].packet.at = "Playing"
    /\ \A i \in DOMAIN faac.calls : faac.calls[i].at = "Playing"
    /\ \A i \in DOMAIN rav1e.calls : rav1e.calls[i].at = "Playing"

C3_Witness ==
    /\ element = "mux"
    /\ last.op = "iStream" /\ last.from = "Paused"
    /\ mux.m_initialized
    /\ mux.m_packetSync.audio # <<>>

\* C4: a Paused->Playing or Playing->Paused transition returns true and
\* changes only the element state and the pause flag: m_initialized, the
\* track indices, the duration and pts counters, the open file or encoder
\* handle and everything else stay as they were.
C4_PauseToggleOnly ==
    [][SetStateFrom(last', {"Paused", "Playing"}, {"Paused", "Playing"})
       /\ last'.from # last'.target
           => /\ last'.ret
              /\ mux' = IF element = "mux"
                        THEN [mux EXCEPT !.state = last'.target,
                                         !.m_paused = (last'.target = "Paused")]
                        ELSE mux
              /\ faac' = IF element = "faac"
                         THEN [faac EXCEPT !.state = last'.target,
                                           !.m_paused = (last'.target = "Paused")]
                         ELSE faac
              /\ rav1e' = IF element = "rav1e"
                          THEN [rav1e EXCEPT !.state = last'.target,
                                             !.m_paused = (last'.target = "Paused")]
                          ELSE rav1e]_vars

C4_Witness ==
    /\ element = "mux"
    /\ SetStateFrom(last, {"Playing"}, {"Paused"})
    /\ mux.m_videoDuration # Zero
    /\ mux.m_writer = "location"

\* C5 as stated: setState with the current state as target is a no-op that
\* returns true and leaves the state and every field unchanged.
C5_SameStateSucceeds ==
    [][SetStateFrom(last', ElementStates, ElementStates)
       /\ last'.from = last'.target
           => /\ last'.ret
              /\ mux' = mux /\ faac' = faac /\ rav1e' = rav1e]_vars

\* C5 as amended: setState with the current state as target leaves the
\* state and every field unchanged and returns false.
C5_SameStateRefused ==
    [][SetStateFrom(last', ElementStates, ElementStates)
       /\ last'.from = last'.target
           => /\ ~last'.ret
              /\ mux' = mux /\ faac' = faac /\ rav1e' = rav1e]_vars

C5_Witness ==
    /\ element = "faac"
    /\ SetStateFrom(last, {"Paused"}, {"Paused"})
    /\ faac.m_encodedTimePts > 0

\* An init() that returned r on the private object d was refused before
\* the writer opened anything.
RefusedUnopened(d, r) ==
    /\ ~r.ok
    /\ ~r.d.m_initialized
    /\ r.d.m_writer = "closed"
    /\ r.d.file = d.file
    /\ r.d.m_muxerSegment = <<>>

\* C6: muxer init() fails when the video caps are invalid, when the video
\* codec is not vp8, vp9 or av1, or when valid audio caps carry a codec
\* other than vorbis or opus; on each of these failures the output file is
\* never opened: the writer stays closed and the output location is as it
\* was.
C6_BadCapsRefusedBeforeOpen ==
    /\ (element = "mux" /\ mux.state = "Null")
           => \A env \in [videoCaps : VideoCapsSet, audioCaps : AudioCapsSet,
                          fault : MuxInitFaults] :
                  (\/ ~CapsValid(env.videoCaps)
                   \/ env.videoCaps.codec \notin {"vp8", "vp9", "av1"}
                   \/ /\ CapsValid(env.audioCaps)
                      /\ env.audioCaps.codec \notin {"vorbis", "opus"})
                      => RefusedUnopened(mux, MuxInit(mux, env))
    /\ (last.op = "setState"
        /\ last.at \in {"videoCaps", "videoCodec", "audioCodec"})
           => ~last.ret /\ mux.m_writer = "closed" /\ mux.state = "Null"

C6_Witness ==
    /\ element = "mux"
    /\ SetStateFrom(last, {"Null"}, {"Playing"})
    /\ last.at = "videoCodec"
    /\ mux.file = "absent"

\* C7: whenever muxer init() fails at or after the attempt to open the
\* output file (open, segment init, add-track or get-track failure for the
\* video or the audio track), the writer is closed, no partial output file
\* remains at the output location, and m_initialized stays false.
C7_FailedOpenLeavesNoPartialFile ==
    (last.op = "setState"
     /\ last.at \in {"writer.Open", "Segment.Init", "AddVideoTrack",
                     "GetVideoTrack", "AddAudioTrack", "GetAudioTrack"})
        => /\ mux.m_writer = "closed"
           /\ mux.file # "partial"
           /\ last.at # "writer.Open" => mux.file = "absent"
           /\ ~mux.m_initialized

C7_Witness ==
    /\ SetStateFrom(last, {"Null"}, {"Paused", "Playing"})
    /\ last.at = "GetAudioTrack"
    /\ mux.m_audioTrackIndex = 2

NoFrameAfterFinalize(calls) ==
    \A i, j \in DOMAIN calls :
        (i < j /\ calls[i].call = "Finalize") => calls[j].call # "AddFrame"

\* calls is before, then one AddFrame for each of n packets, then
\* set_duration and Finalize.
FlushedThenFinalized(before, calls, n) ==
    LET k == Len(before)
    IN  /\ Len(calls) = k + n + 2
        /\ SubSeq(calls, 1, k) = before
        /\ \A i \in (k + 1)..(k + n) : calls[i].call = "AddFrame"
        /\ calls[k + n + 1].call = "set_duration"
        /\ calls[k + n + 2].call = "Finalize"

\* C9: on a transition to Null the muxer first switches m_packetSync to
\* Null, so that every packet it still holds is appended with AddFrame, and
\* only then sets the duration, finalizes the segment and closes the file;
\* no AddFrame follows the Finalize of its session.
C9_FlushBeforeFinalize ==
    /\ [](NoFrameAfterFinalize(mux.m_muxerSegment))
    /\ [][(element = "mux"
           /\ SetStateFrom(last', {"Paused", "Playing"}, {"Null"}))
              => /\ FlushedThenFinalized(
                        mux.m_muxerSegment, mux'.m_muxerSegment,
                        Len(mux.m_packetSync.audio)
                            + Len(mux.m_packetSync.video))
                 /\ mux'.m_packetSync.state = "Null"
                 /\ mux'.m_packetSync.audio = <<>>
                 /\ mux'.m_packetSync.video = <<>>
                 /\ mux'.m_writer = "closed"]_vars

\* Two audio packets that only the switch to Null could release (no video
\* packet ever came) were appended before the Finalize.
C9_Witness ==
    /\ element = "mux"
    /\ SetStateFrom(last, {"Paused", "Playing"}, {"Null"})
    /\ mux.m_audioTrackIndex = 2
    /\ Len(MuxFrames(mux)) = 2
    /\ \A i \in DOMAIN MuxFrames(mux) : MuxFrames(mux)[i].track = 2

\* The AddFrame calls made for the packets of one type, in call order.
TrackFrames(type) ==
    SelectSeq(mux.m_muxerSegment,
              LAMBDA c : c.call = "AddFrame" /\ c.packet.type = type)

TimestampsAscend(frames) ==
    \A i, j \in DOMAIN frames :
        i < j => frames[i].timestamp <= frames[j].timestamp

\* The packets of one type m_packetSync delivered, in delivery order.
RECURSIVE PacketsOf(_)
PacketsOf(frames) ==
    IF frames = <<>> THEN <<>>
    ELSE <<Head(frames).packet>> \o PacketsOf(Tail(frames))

Delivered(type) == PacketsOf(TrackFrames(type))

TimesAscend(packets) ==
    \A i, j \in DOMAIN packets :
        i < j => FracLeq(PacketTime(packets[i]), PacketTime(packets[j]))

SegmentCalls(d, call) ==
    SelectSeq(d.m_muxerSegment, LAMBDA c : c.call = call)

\* The value passed to set_duration in this session.
DurationWritten(d) == SegmentCalls(d, "set_duration")[1].timestamp

\* The duration of a stream at finalize: the one the host reports when it
\* is positive, otherwise the running one.
AudioStreamTime(d, env) ==
    IF env.audioStreamDuration > 0
    THEN [n |-> env.audioStreamDuration, d |-> 48000]
    ELSE d.m_audioDuration

VideoStreamTime(d, env) ==
    IF env.videoStreamDuration > 0
    THEN [n |-> env.videoStreamDuration, d |-> 30]
    ELSE d.m_videoDuration

\* The muxer runs a session that init() started without valid audio caps.
VideoOnlySession ==
    element = "mux" /\ mux.m_initialized /\ ~mux.m_packetSync.audioEnabled

\* C11: when the muxer is initialized with valid video caps and no valid
\* audio caps, AddAudioTrack is not called in the session, the audio track
\* index stays 0, and the duration written at finalize is the video
\* stream's, whatever audio duration the host reports.
C11_VideoOnlyDuration ==
    /\ VideoOnlySession
           => /\ SegmentCalls(mux, "AddAudioTrack") = <<>>
              /\ mux.m_audioTrackIndex = 0
              /\ \A env \in UninitEnvs :
                     LET d == MuxUninit(mux, env)
                     IN  /\ DurationWritten(d)
                                = SegmentDuration(VideoStreamTime(d, env))
                         /\ d.m_audioTrackIndex = 0
                         /\ SegmentCalls(d, "AddAudioTrack") = <<>>
    /\ (element = "mux" /\ ~mux.m_packetSync.audioEnabled
        /\ SetStateFrom(last, {"Paused", "Playing"}, {"Null"}))
           => /\ SegmentCalls(mux, "AddAudioTrack") = <<>>
              /\ mux.m_audioTrackIndex = 0
              /\ \E reported \in StreamDurations :
                     DurationWritten(mux)
                         = SegmentDuration(
                               VideoStreamTime(
                                   mux, [videoStreamDuration |-> reported]))

\* A video-only session that wrote a frame was finalized with that frame's
\* end as duration.
C11_Witness ==
    /\ element = "mux" /\ ~mux.m_packetSync.audioEnabled
    /\ SetStateFrom(last, {"Playing"}, {"Null"})
    /\ mux.m_videoDuration # Zero
    /\ DurationWritten(mux) = SegmentDuration(mux.m_videoDuration)
    /\ DurationWritten(mux) > 0

\* w is the larger of a and v.
IsMaxOf(w, a, v) == w \in {a, v} /\ FracLeq(a, w) /\ FracLeq(v, w)

\* C12: when both an audio and a video track were added, the duration
\* written at finalize is the maximum of the audio and the video stream
\* duration, each being the duration the host reports when that is positive
\* and the running duration of the stream's packets otherwise.
C12_DurationIsMaxOfStreams ==
    /\ (element = "mux" /\ mux.m_initialized
        /\ mux.m_audioTrackIndex >= 1 /\ mux.m_videoTrackIndex >= 1)
           => \A env \in UninitEnvs :
                  LET d == MuxUninit(mux, env)
                  IN  \E w \in {AudioStreamTime(d, env),
                                VideoStreamTime(d, env)} :
                          /\ IsMaxOf(w, AudioStreamTime(d, env),
                                     VideoStreamTime(d, env))
                          /\ DurationWritten(d) = SegmentDuration(w)
    /\ (element = "mux"
        /\ SetStateFrom(last, {"Paused", "Playing"}, {"Null"})
        /\ mux.m_audioTrackIndex >= 1 /\ mux.m_videoTrackIndex >= 1)
           => \E env \in [audioStreamDuration : StreamDurations,
                          videoStreamDuration : StreamDurations] :
                  \E w \in {AudioStreamTime(mux, env),
                            VideoStreamTime(mux, env)} :
                      /\ IsMaxOf(w, AudioStreamTime(mux, env),
                                 VideoStreamTime(mux, env))
                      /\ DurationWritten(mux) = SegmentDuration(w)

\* A session with both tracks whose audio ran longer than its video was
\* finalized with the audio's running duration.
C12_Witness ==
    /\ element = "mux"
    /\ SetStateFrom(last, {"Paused", "Playing"}, {"Null"})
    /\ mux.m_audioTrackIndex >= 1 /\ mux.m_videoTrackIndex >= 1
    /\ mux.m_audioDuration # Zero /\ mux.m_videoDuration # Zero
    /\ ~FracLeq(mux.m_audioDuration, mux.m_videoDuration)
    /\ DurationWritten(mux) = SegmentDuration(mux.m_audioDuration)


\* The per-packet native calls whose failure a call of iStream reports.
PacketFaults == {"AddFrame", "faacEncEncode"}

\* C13: a failing per-packet native call does not abort the session: when
\* AddFrame fails in the muxer or faacEncEncode returns a negative value in
\* the FAAC encoder, the element stays initialized in state Playing, the
\* FAAC encoder emits no packet and advances no counter for the failed
\* frame, and the packets submitted after a failure are still processed.
C13_PacketFailureKeepsSession ==
    /\ [](last.at \in PacketFaults
              => Driven = [state |-> "Playing", m_paused |-> FALSE,
                           m_initialized |-> TRUE])
    /\ [][last'.at = "faacEncEncode"
              => /\ faac'.oStream = faac.oStream
                 /\ faac'.m_pts = faac.m_pts
                 /\ faac'.m_encodedTimePts = faac.m_encodedTimePts
                 /\ Len(faac'.calls) = Len(faac.calls) + 1]_vars
    /\ [][(last.at \in PacketFaults /\ last'.op = "iStream")
              => /\ element = "faac"
                     => \/ faac' = faac
                        \/ /\ Len(faac'.calls) = Len(faac.calls) + 1
                           /\ faac'.calls[Len(faac'.calls)].encoder = "open"
                 /\ element = "mux"
                     => \/ /\ mux' = mux
                           /\ ~mux.m_packetSync.audioEnabled
                        \/ MuxAccepted(mux') = MuxAccepted(mux) + 1]_vars

\* faacEncEncode failed on the second frame of a session whose first frame
\* was emitted.
C13_Witness ==
    /\ element = "faac"
    /\ last.at = "faacEncEncode"
    /\ Len(faac.calls) = 2
    /\ Len(faac.oStream) = 1
    /\ faac.m_initialized /\ faac.state = "Playing"


\* C14: when the muxer session has no audio (init() set audioEnabled of
\* m_packetSync to false), every video packet accepted in state Playing is
\* forwarded by m_packetSync and passed to AddFrame for the video track
\* within the same iStream call; no packet is held back to wait for audio.
\* (iStream accepts a packet when m_initialized holds and m_paused does
\* not.)
C14_VideoOnlyForwardsAtOnce ==
    (element = "mux" /\ mux.m_initialized /\ mux.m_audioTrackIndex = 0)
        => /\ ~mux.m_packetSync.audioEnabled
           /\ mux.m_packetSync.audio = <<>>
           /\ mux.m_packetSync.video = <<>>
           /\ (mux.state = "Playing" /\ ~mux.m_paused)
                  => \A packet \in Packets("Playing") :
                         ~IsAudio(packet)
                             => LET d == MuxIStream(mux, packet)
                                IN  /\ MuxFrames(d)
                                          = Append(
                                                MuxFrames(mux),
                                                [call |-> "AddFrame",
                                                 track |-> mux.m_videoTrackIndex,
                                                 timestamp |->
                                                     AddFrameTimestamp(packet),
                                                 key |->
                                                     (packet.type
                                                          = "VideoCompressed"
                                                      => packet.keyFrame),
                                                 packet |-> packet])
                                    /\ d.m_packetSync.video = <<>>

\* Two video packets went straight to the video track of a session without
\* audio.
C14_Witness ==
    /\ VideoOnlySession
    /\ last.op = "iStream" /\ last.from = "Playing"
    /\ Len(MuxFrames(mux)) = 2
    /\ \A i \in 1..2 : MuxFrames(mux)[i].track = mux.m_videoTrackIndex
    /\ mux.m_videoTrackIndex = 1


\* Entry a of the table is at least as near to rate as entry b.
NearerOrEqual(a, b, rate) ==
    IF rate <= a /\ rate <= b THEN a <= b
    ELSE IF rate >= a /\ rate >= b THEN a >= b
    ELSE (IF a >= rate THEN a - rate ELSE rate - a)
             <= (IF b >= rate THEN b - rate ELSE rate - b)

\* out is the first of the table entries nearest to rate.
IsFirstNearest(rate, out) ==
    \E i \in DOMAIN SupportedSampleRates :
        /\ SupportedSampleRates[i] = out
        /\ \A j \in DOMAIN SupportedSampleRates :
               /\ NearerOrEqual(out, SupportedSampleRates[j], rate)
               /\ j < i => ~NearerOrEqual(SupportedSampleRates[j], out, rate)

\* C15 as stated: for every integer input rate, nearestSampleRate returns
\* an entry of the supported table whose absolute distance to the input is
\* minimal, the first such entry in table order.
C15_NearestForEveryInt ==
    conf.probe.op = "nearestSampleRate"
        => IsFirstNearest(conf.probe.in, conf.probe.out)

\* C15 as amended: for every input rate from which every table entry can
\* be subtracted within int (rate >= 96000 - 2147483647, so every rate
\* that is not negative), nearestSampleRate returns the first of the table
\* entries at minimal absolute distance.
C15_NearestWithoutOverflow ==
    (conf.probe.op = "nearestSampleRate"
     /\ conf.probe.in >= 96000 - IntMax)
        => IsFirstNearest(conf.probe.in, conf.probe.out)

\* 14000 is as far from 12000 as from 16000; the earlier entry came back.
C15_Witness ==
    conf.probe = [op |-> "nearestSampleRate", in |-> 14000, out |-> 12000]


(* C16 *)

\* The sampling frequency table of MPEG-4 audio: index i stands for entry
\* i + 1.
StandardRates ==
    <<96000, 88200, 64000, 48000, 44100, 32000, 24000, 22050, 16000, 12000,
      11025, 8000, 7350>>

\* The bits of a byte array, the highest bit of each byte first
BytesToBits(bytes) ==
    [p \in 1..(8 * Len(bytes)) |->
        (bytes[(p - 1) \div 8 + 1] \div 2 ^ (7 - ((p - 1) % 8))) % 2]

\* The number written in the n bits that start at position from, read
\* with the highest bit first
RECURSIVE Field(_, _, _)
Field(bits, from, n) ==
    IF n = 0 THEN 0
    ELSE 2 * Field(bits, from, n - 1) + bits[from + n - 1]

\* What a reader of the audio specific config finds in a header.
ParseHeader(bytes) ==
    LET bits == BytesToBits(bytes)
        sri == Field(bits, 6, 4)
        escaped == sri = 15
    IN  [objectType |-> Field(bits, 1, 5),
         index |-> sri,
         rate |-> IF escaped THEN Field(bits, 10, 24)
                  ELSE IF sri < Len(StandardRates) THEN StandardRates[sri + 1]
                  ELSE 0,
         channels |-> Field(bits, IF escaped THEN 34 ELSE 10, 4)]

HeaderCall == conf.probe.op = "updateHeaders"

\* C16: the header updateHeaders builds is 32 bytes, and read with the
\* highest bit first it gives object type 2 in its first 5 bits, then in 4
\* bits the index of the rate in the standard table, or 15 followed by the
\* rate in 24 bits when the table does not hold the rate, then in 4 bits
\* the channel count.
C16_HeaderRoundTrip ==
    HeaderCall =>
        LET in == conf.probe.in
            out == conf.probe.out
            parsed == ParseHeader(out)
            listed == \E i \in DOMAIN StandardRates :
                          StandardRates[i] = in.rate
        IN  /\ Len(out) = 32
            /\ \A b \in DOMAIN out : out[b] \in 0..255
            /\ parsed.objectType = 2
            /\ listed => StandardRates[parsed.index + 1] = in.rate
            /\ ~listed => parsed.index = 15
            /\ parsed.rate = in.rate
            /\ parsed.channels = in.channels

\* 44100 Hz, 2 channels: the header starts 00010 0100 0010 000.
C16_Witness ==
    /\ HeaderCall
    /\ conf.probe.in = [rate |-> 44100, channels |-> 2]
    /\ conf.probe.out[1] = 18
    /\ conf.probe.out[2] = 16
    /\ ParseHeader(conf.probe.out).index = 4

(* C17 *)

\* How often a signal is among the notifications noted.
Count(emitted, signal) ==
    Cardinality({i \in DOMAIN emitted : emitted[i] = signal})

\* One operation took the configuration c to cNext: each of the two
\* signals went out once if the value it announces differs, and not at all
\* if it is the same.
NotifiesOnChange(c, cNext) ==
    /\ Count(cNext.emitted, "outputCapsChanged") =
           IF cNext.m_outputCaps # c.m_outputCaps THEN 1 ELSE 0
    /\ Count(cNext.emitted, "headersChanged") =
           IF cNext.m_headers # c.m_headers THEN 1 ELSE 0

\* C17: an operation of either encoder emits outputCapsChanged exactly
\* once when it changes the stored output caps and headersChanged exactly
\* once when it changes the stored headers, and emits neither for a value
\* it leaves as it was; so init() or updateOutputCaps() run again to the
\* same result notifies nobody.
C17_NotifyOnChangeOnly ==
    [][/\ NotifiesOnChange(conf.faac, conf'.faac)
       /\ NotifiesOnChange(conf.rav1e, conf'.rav1e)]_vars

\* init() has run again, built the headers already stored, and emitted
\* nothing.
C17_Witness ==
    /\ element = "faac"
    /\ last.op = "setState" /\ last.from = "Null" /\ last.ret
    /\ faac.m_initialized
    /\ CompressedAudioCapsValid(conf.faac.m_outputCaps)
    /\ conf.faac.m_headers =
           AudioSpecificConfig(LOW, conf.faac.m_outputCaps.raw.rate,
                               conf.faac.m_outputCaps.raw.channels)
    /\ conf.faac.emitted = <<>>

(* C18 *)

\* updateOutputCaps was the last operation of the driven encoder, so the
\* stored output caps are the ones it made of the stored input caps and
\* codec.
Negotiated(e) == element = e /\ last.op = "inputCapsChanged"

\* The output caps the audio encoder is to derive from valid input caps.
FaacNegotiates(in, out) ==
    /\ CompressedAudioCapsValid(out)
    /\ out.codec = "aac"
    /\ out.raw.format = IF in.format \in {"s16", "s32"} THEN in.format
                        ELSE "s16"
    /\ out.raw.channels =
           IF in.channels < 1 THEN 1
           ELSE IF in.channels > 2 THEN 2 ELSE in.channels
    /\ IsFirstNearest(in.rate, out.raw.rate)

\* The output caps the video encoder is to derive from valid input caps;
\* of the pixel formats a host sets here, rgb24 is the one the encoder
\* does not take.
Rav1eNegotiates(in, out) ==
    /\ CompressedVideoCapsValid(out)
    /\ out.codec = "av1"
    /\ out.raw.format = IF in.format = "rgb24" THEN "yuv420p" ELSE in.format
    /\ out.raw.width = in.width /\ out.raw.height = in.height
    /\ out.raw.fps = IF in.fps = NoFps THEN [num |-> 30, den |-> 1]
                     ELSE in.fps

\* C18: updateOutputCaps turns valid input caps into valid output caps
\* whenever the codec is known: for the audio encoder with the input's
\* sample format if that is s16 or s32 and s16 otherwise, the channels
\* clamped to 1..2 and the nearest supported rate, for the video encoder
\* with yuv420p in place of a pixel format it does not support and 30/1
\* in place of a missing frame rate; it leaves the output caps empty only
\* for invalid input caps or an unknown codec.
C18_ValidCapsNegotiate ==
    /\ Negotiated("faac") =>
           LET c == conf.faac
           IN  /\ AudioCapsValid(c.inputCaps) /\ c.codec = "faac"
                      => FaacNegotiates(c.inputCaps, c.m_outputCaps)
               /\ ~CompressedAudioCapsValid(c.m_outputCaps)
                      => /\ c.m_outputCaps = NoCompressedAudioCaps
                         /\ ~AudioCapsValid(c.inputCaps) \/ c.codec # "faac"
    /\ Negotiated("rav1e") =>
           LET c == conf.rav1e
           IN  /\ VideoCapsValid(c.inputCaps) /\ c.codec = "rav1e"
                      => Rav1eNegotiates(c.inputCaps, c.m_outputCaps)
               /\ ~CompressedVideoCapsValid(c.m_outputCaps)
                      => /\ c.m_outputCaps = NoCompressedVideoCaps
                         /\ ~VideoCapsValid(c.inputCaps) \/ c.codec # "rav1e"

\* Unsigned 8 bit samples on 6 channels at 14000 Hz have become s16 on 2
\* channels at 12000 Hz.
C18_Witness ==
    /\ Negotiated("faac")
    /\ conf.faac.inputCaps =
           [format |-> "u8", channels |-> 6, rate |-> 14000]
    /\ conf.faac.m_outputCaps =
           [codec |-> "aac",
            raw |-> [format |-> "s16", channels |-> 2, rate |-> 12000]]

(* C19 *)

\* The call just made was given an invalid packet.
EmptyPacketCall(call) ==
    call.op \in {"write", "encodeFrame"} /\ call.at = "empty"

\* C19: write() of the audio device and encodeFrame() of the two encoders
\* given an invalid packet call no native function and change no counter,
\* timestamp or buffer, and write() returns false.
C19_EmptyPacketRejected ==
    [][EmptyPacketCall(last')
           => /\ UNCHANGED <<mux, faac, rav1e>>
              /\ pw' = [pw EXCEPT !.calls = <<>>]
              /\ last'.op = "write" => ~last'.ret]_vars

\* The same of write() and of encodeFrame() of the audio encoder alone.
C19_AudioEmptyPacketRejected ==
    [][EmptyPacketCall(last') /\ element # "rav1e"
           => /\ UNCHANGED <<mux, faac, rav1e>>
              /\ pw' = [pw EXCEPT !.calls = <<>>]
              /\ last'.op = "write" => ~last'.ret]_vars

(* C20 *)

\* The driven object holds nothing that uninit() would release.
Idle ==
    IF element = "pipewire"
    THEN /\ pw.m_pwStreamLoop = "null"
         /\ pw.m_pwStreamContext = "null"
         /\ pw.m_pwStream = "null"
    ELSE ~Driven.m_initialized

\* uninit() applied twice leaves what uninit() applied once leaves,
\* whatever the environment answers.
UninitTwiceIsOnce ==
    /\ \A env1 \in UninitEnvs, env2 \in UninitEnvs :
           MuxUninit(MuxUninit(mux, env1), env2) = MuxUninit(mux, env1)
    /\ FaacUninit(FaacUninit(faac)) = FaacUninit(faac)
    /\ \A pending1 \in 0..1, pending2 \in 0..1 :
           Rav1eUninit(Rav1eUninit(rav1e, pending1), pending2)
               = Rav1eUninit(rav1e, pending1)
    /\ PipeWireUninit(PipeWireUninit(pw)) = PipeWireUninit(pw)

\* C20: uninit() of the muxer, of the two encoders and of the audio device,
\* called on an object that was never initialized or is uninitialized
\* already, changes none of its fields and calls no native function; and
\* in every state a second uninit() adds nothing to the first.
C20_UninitIdempotent ==
    /\ [][last'.op = "uninit" /\ Idle
              => /\ UNCHANGED <<mux, faac, rav1e>>
                 /\ pw' = [pw EXCEPT !.calls = <<>>]]_vars
    /\ []UninitTwiceIsOnce

\* uninit() was called on a muxer that had been initialized and
\* uninitialized before.
C20_Witness ==
    /\ element = "mux"
    /\ last.op = "uninit"
    /\ mux.m_videoTrackIndex # 0
    /\ ~mux.m_initialized

\* uninit() was called on an audio device that init() had not opened.
C20_DeviceWitness ==
    /\ element = "pipewire"
    /\ last.op = "uninit"
    /\ pw = NewPipeWire

(* C21 *)

\* C21: while the device has a stream, in capture and in playback mode and
\* whatever the order of read(), write() and onProcess(), m_buffers holds
\* no more than m_maxBufferSize bytes.
C21_BufferBounded ==
    pw.m_pwStream # "null" => Len(pw.m_buffers) <= pw.m_maxBufferSize

\* The same of the steps that add bytes: after write() has appended a
\* packet, or onProcess() a captured chunk, m_buffers holds no more than
\* m_maxBufferSize bytes.
C21_AddedWithinBound ==
    [][last'.op \in {"write", "onProcess"} /\ pw'.bytes > pw.bytes
           => Len(pw'.m_buffers) <= pw'.m_maxBufferSize]_vars

(* C22 *)

\* The bytes of a byte array, as a set.
BytesOf(ba) == {ba[i] : i \in DOMAIN ba}

\* A step in which read() returns: at once, or from its wait when that was
\* woken ("woken") or timed out ("timeout"). Without a stream it returns
\* nothing and has not waited; after a wait that timed out it returns
\* nothing; in the other cases it returns all of m_buffers and leaves
\* m_buffers empty; and no byte it returns was returned by a read() before.
ReadReturns ==
    last'.op = "read" /\ pw'.waiting = "none"
        => /\ pw.waiting = "none" /\ pw.m_pwStream = "null"
                  => pw'.out = <<>> /\ last'.at = "none"
           /\ last'.at = "timeout"
                  => pw'.out = <<>> /\ pw'.m_buffers = pw.m_buffers
           /\ last'.at # "timeout"
              /\ (pw.waiting = "read" \/ pw.m_pwStream # "null")
                  => pw'.out = pw.m_buffers /\ pw'.m_buffers = <<>>
           /\ BytesOf(pw'.out) \cap pw.returned = {}

\* C22: read() returns nothing at once when there is no stream, nothing
\* when its wait for data timed out, and otherwise the whole of m_buffers,
\* which it leaves empty, so that no byte is returned by two calls; and a
\* read() that waits returns (its wait has a timeout of 1000 ms).
C22_ReadReturns ==
    /\ [][ReadReturns]_vars
    /\ (pw.waiting = "read" ~> pw.waiting # "read")

\* In capture mode a read() that waited was woken by onProcess() and
\* returned the bytes captured.
C22_Witness ==
    /\ pw.m_isCapture
    /\ last.op = "read" /\ last.at = "woken"
    /\ pw.out # <<>> /\ pw.m_buffers = <<>>

\* A read() that waited returned nothing after the timeout.
C22_TimeoutWitness ==
    /\ pw.m_pwStream # "null"
    /\ last.op = "read" /\ last.at = "timeout" /\ ~last.ret

(* C23 *)

\* A step in which write() is called with a valid packet on a playback
\* stream whose m_buffers is empty.
EmptyPlaybackWrite ==
    /\ last'.op = "write" /\ last'.at # "empty"
    /\ pw.waiting = "none"
    /\ pw.m_pwStream # "null" /\ ~pw.m_isCapture
    /\ pw.m_buffers = <<>>

\* C23: write() of a valid packet on a playback stream whose m_buffers is
\* empty does not wait for m_bufferIsNotFull, in every state of the stream
\* from init() on, before the format has been negotiated too.
C23_EmptyBufferNoWait ==
    [][EmptyPlaybackWrite => pw'.waiting = "none"]_vars

\* The same once onParamChanged() has been given the format of the
\* session.
C23_NegotiatedEmptyBufferNoWait ==
    [][EmptyPlaybackWrite /\ pw.negotiated => pw'.waiting = "none"]_vars

(* C24 *)

\* The bytes numbered 1 .. n in ascending order
Ascending(n) == [i \in 1..n |-> i]

\* C24: in a playback session in which read() took nothing, the bytes
\* that onProcess() has handed to the device, followed by the bytes that
\* m_buffers holds, are the bytes that write() has accepted since init(),
\* each once and in the order written.
C24_PlayedInOrder ==
    pw.m_pwStream # "null" /\ ~pw.m_isCapture /\ pw.returned = {}
        => pw.played \o pw.m_buffers = Ascending(pw.bytes)

\* onProcess() handed the device bytes of two write() calls, part of the
\* second is still in m_buffers.
C24_Witness ==
    /\ pw.m_pwStream # "null" /\ ~pw.m_isCapture /\ pw.returned = {}
    /\ last.op = "onProcess"
    /\ Len(pw.played) >= 3 /\ pw.m_buffers # <<>>

(* C25 *)

\* C25: when uninit() is called while a thread waits in read() or write()
\* on m_bufferIsNotEmpty or m_bufferIsNotFull, uninit() wakes that thread,
\* which so returns without waiting for its timeout.
C25_TeardownWakesWaiters ==
    [][last'.op = "uninit" /\ pw.waiting # "none" => pw'.woken]_vars

(* C26 *)

\* C26: whenever the destructor has begun `delete d`, the worker that runs
\* pipewireDevicesLoop() has returned, however the start of the worker and
\* the destructor interleave.
C26_WorkerJoinedBeforeDelete ==
    dev.dtor \in {"deleting", "deleted"} => dev.worker = "done"

\* The same of a destructor that found m_pwDevicesLoop set.
C26_JoinedWhenLoopSeen ==
    dev.dtor \in {"deleting", "deleted"} /\ dev.quit => dev.worker = "done"

(* C27 *)

\* C27: no operation reads or writes m_sinks, m_sources, m_formats,
\* m_pinDescriptionMap, m_defaultSink or m_defaultSource without holding
\* m_mutex.
C27_TablesUnderMutex == dev.access # "unlocked"

\* The same of the accessors the application calls.
C27_AccessorsUnderMutex ==
    last.op \in {"defaultOutput", "outputs", "supportedFormats"}
        => dev.access = "locked"

(* C28 *)

\* A step in which deviceAdded() is called for a node of media class
\* "Audio/Sink".
SinkAdded == last'.op = "deviceAdded" /\ last'.at = "Audio/Sink"

\* The name of the node that the step announces.
AddedName == dev'.m_deviceIds[CHOOSE id \in dev'.live : id \notin dev.live]

\* C28: when deviceAdded() is called for an "Audio/Sink" node and no
\* default sink is set, the node becomes the default sink and
\* defaultOutputChanged is emitted once; when a default sink is set, the
\* default sink stays and defaultOutputChanged is not emitted.
C28_FirstSinkBecomesDefault ==
    [][SinkAdded
           => IF dev.m_defaultSink = ""
              THEN /\ dev'.m_defaultSink = AddedName
                   /\ Count(dev'.emitted, "defaultOutputChanged") = 1
              ELSE /\ dev'.m_defaultSink = dev.m_defaultSink
                   /\ Count(dev'.emitted, "defaultOutputChanged") = 0]_vars

\* A second sink was announced while the first one was the default sink.
C28_Witness ==
    /\ last.op = "deviceAdded" /\ last.at = "Audio/Sink"
    /\ DOMAIN dev.m_sinks = {1, 2}
    /\ dev.m_defaultSink = "a" /\ dev.m_sinks[1] = "b"
    /\ Count(dev.emitted, "defaultOutputChanged") = 0

\* The first sink was announced and became the default sink.
C28_FirstWitness ==
    /\ last.op = "deviceAdded" /\ last.at = "Audio/Sink"
    /\ DOMAIN dev.m_sinks = {2}
    /\ dev.m_defaultSink = "a"
    /\ dev.emitted = <<"outputsChanged", "defaultOutputChanged">>

(* C29 *)

\* The names of a map, as a set.
NamesOf(m) == {m[k] : k \in DOMAIN m}

\* The default sink is empty or the name of a listed sink, and it is not
\* empty while a sink is listed.
DefaultSinkListed ==
    /\ dev.m_defaultSink = "" \/ dev.m_defaultSink \in NamesOf(dev.m_sinks)
    /\ DOMAIN dev.m_sinks # {} => dev.m_defaultSink # ""

\* A step in which deviceRemoved() is called: for an id that no map has
\* it changes nothing and emits nothing; when it removes the sink that is
\* the default sink, the default sink becomes the first sink left, or
\* empty, and defaultOutputChanged is emitted.
RemovedStep ==
    last'.op = "deviceRemoved"
        => /\ last'.at = "unknown"
                  => /\ dev' = [dev EXCEPT !.live = dev'.live,
                                           !.emitted = <<>>,
                                           !.access = "none"]
           /\ last'.at = "known" /\ dev.m_defaultSink # ""
              /\ DOMAIN dev'.m_sinks # DOMAIN dev.m_sinks
              /\ dev.m_defaultSink \notin NamesOf(dev'.m_sinks)
                  => /\ dev'.m_defaultSink = FirstValue(dev'.m_sinks)
                     /\ Count(dev'.emitted, "defaultOutputChanged") = 1

\* C29: after every sequence of device-added and device-removed events the
\* default sink is empty or a listed sink, and not empty while an
\* "Audio/Sink" device is present; removing the default sink makes the
\* first sink left (or none) the default and emits defaultOutputChanged; a
\* device-removed event for an unknown id changes and emits nothing.
C29_DefaultSinkTracksList ==
    /\ []DefaultSinkListed
    /\ [][RemovedStep]_vars

\* The same when every node that is announced has a name.
C29_NamedDefaultSinkTracksList ==
    /\ [](~dev.nameless => DefaultSinkListed)
    /\ [][~dev'.nameless => RemovedStep]_vars

(* C30 *)

\* A step in which init() fails. The audio device is left with no thread
\* loop, context or stream; the audio encoder, when faacEncOpen had given
\* it a handle, has closed that handle once; the video encoder, when
\* rav1e_config_default had given it a config, has released the config and
\* holds no encoder context.
FailedInitReleases ==
    /\ element = "pipewire" /\ last'.op = "init" /\ ~last'.ret
           => /\ pw'.m_pwStream = "null"
              /\ pw'.m_pwStreamContext = "null"
              /\ pw'.m_pwStreamLoop = "null"
    /\ element = "faac" /\ last'.op = "setState" /\ ~last'.ret
       /\ last'.at \in {"version", "faacEncSetConfiguration"}
           => faac'.m_encoder = "closed" /\ faac'.closes = 1
    /\ element = "rav1e" /\ last'.op = "setState" /\ ~last'.ret
       /\ last'.at \in Rav1eInitFaults \ {"none", "rav1e_config_default"}
           => rav1e'.config = "released" /\ rav1e'.m_encoder = "null"

\* C30: init() of the audio device that returns false leaves the stream,
\* context and thread-loop handles null; after init() of the audio encoder
\* fails with an open handle, that handle has been closed once, and no
\* later uninit() closes it again; after init() of the video encoder fails,
\* its config has been released and no encoder context is left.
C30_FailedInitReleases ==
    /\ [][FailedInitReleases]_vars
    /\ [](faac.closes <= 1 /\ rav1e.config # "live")
    /\ [](rav1e.m_encoder # "null" => rav1e.m_initialized)

\* uninit() was called on an audio encoder whose init() had failed after
\* faacEncOpen.
C30_Witness ==
    /\ element = "faac"
    /\ last.op = "uninit"
    /\ faac.m_encoder = "closed" /\ faac.closes = 1

\* init() of the audio device failed at pw_context_connect, after an
\* earlier init() had opened the device.
C30_DeviceWitness ==
    /\ element = "pipewire"
    /\ last.op = "init" /\ ~last.ret /\ last.at = "pw_context_connect"
    /\ Len(pw.calls) > 4

\* init() of the video encoder failed at rav1e_context_new.
C30_VideoWitness ==
    /\ element = "rav1e"
    /\ last.op = "setState" /\ ~last.ret /\ last.at = "rav1e_context_new"
    /\ rav1e.config = "released"


(***************************************************************************)
(* C31  init() with caps of a sample format that the PipeWire table has   *)
(* no entry for returns false, and makes none of the calls that create a  *)
(* thread loop, a context or a stream.                                     *)
(***************************************************************************)
UnsupportedCaps(caps) ==
    \A item \in DOMAIN SampleFormatTable :
        \/ SampleFormatTable[item].format = "none"
        \/ SampleFormatTable[item].format # caps.format
        \/ SampleFormatTable[item].planar # caps.planar

Creates(calls) ==
    \E i \in DOMAIN calls :
        calls[i] \in {"pw_thread_loop_new", "pw_context_new", "pw_stream_new"}

C31_UnsupportedCapsRejected ==
    (last.op = "init" /\ UnsupportedCaps(pw.m_curCaps))
        => (~last.ret /\ ~Creates(pw.calls))


(***************************************************************************)
(* C32  After every sequence of setState calls, whatever init() and the   *)
(* steps of uninit() do, the muxer and the FAAC encoder have m_paused     *)
(* exactly in state Paused and m_initialized exactly outside state Null.  *)
(***************************************************************************)
FlagsFollowState(d) ==
    /\ d.m_paused <=> (d.state = "Paused")
    /\ d.m_initialized <=> (d.state # "Null")

C32_MuxFlagsFollowState == FlagsFollowState(mux)

C32_FaacFlagsFollowState == FlagsFollowState(faac)


(* SpecPackets follows the muxer through setState and the packets that    *)
(* the oStream signal of m_packetSync hands to packetReady().             *)

\* What the environment decides during the init() and the uninit() of the
\* sessions followed here: vp8 video with or without vorbis audio, an
\* output file that opens or does not, and a cue pass that runs or fails at
\* its first step.
RaceUninitEnvs ==
    {QuietUninit, [QuietUninit EXCEPT !.cueFault = "reader.Open"]}

RaceInitEnvs ==
    {e \in MuxInitEnvs :
        /\ e.fault \in {"none", "writer.Open"}
        /\ e.videoCaps.codec = "vp8"
        /\ e.audioCaps.codec \in {"unknown", "vorbis"}}

\* setState(state) in one of these sessions
SessionSetStateCall(state) ==
    /\ element = "mux"
    /\ \E init \in IF mux.state = "Null" /\ state # "Null"
                   THEN RaceInitEnvs ELSE {QuietMuxInit},
          uninit \in IF mux.state # "Null" /\ state = "Null"
                     THEN {e \in RaceUninitEnvs :
                              mux.m_cuesBeforeClusters \/ e.cueFault = "none"}
                     ELSE {QuietUninit} :
          Returns(mux, mux', MuxSetState(mux, state, init, uninit), state)
    /\ UNCHANGED <<thr, dev, element, faac, rav1e, conf, pw>>

\* packetReady(packet), as the lambda connected to m_packetSync's oStream
\* calls it, lines 318-322
PacketReadyCall ==
    /\ element = "mux"
    /\ mux.m_initialized /\ mux.m_packetSync.loaded
    /\ Len(MuxFrames(mux)) < MaxPackets
    /\ \E packet \in AkPackets(mux.state) :
          /\ mux' = MuxPacketReady(mux, packet)
          /\ last' = Call("packetReady", mux.state, mux.state, TRUE,
                          packet.type)
    /\ UNCHANGED <<thr, dev, element, faac, rav1e, conf, pw>>

NextPackets ==
    \/ \E state \in ElementStates : SessionSetStateCall(state)
    \/ PacketReadyCall

InitPackets == element = "mux" /\ Constructed

SpecPackets == InitPackets /\ [][NextPackets]_vars

(* SpecRace follows the muxer with setState called on a control thread    *)
(* and packets submitted on a delivery thread.  uninit() holds m_mutex    *)
(* from its first statement to its return; iStream() and packetReady()    *)
(* lock nothing, so every statement of uninit() can be followed by any    *)
(* step of the delivery thread.  thr holds                                *)
(*   control  where the control thread is in uninit(): "idle" outside it, *)
(*            else the step it makes next                                 *)
(*   deliver  where the delivery thread is in iStream(): "idle", "sync"   *)
(*            before m_packetSync->iStream, "ready" before packetReady    *)
(*   pending  the packet iStream() holds, then the packets released to    *)
(*            packetReady that it was not yet called with                 *)
(*   env      what the environment decides during this uninit()           *)
(*   syncLocks  whether m_packetSync releases packets under a lock of its *)
(*            own that its setState also takes                            *)
(*   hit      what the last AddFrame of the delivery thread met: "closed" *)
(*            for a closed writer, "finalizing" for uninit() between      *)
(*            lines 526 and 557, "entered" for uninit() before line 526,  *)
(*            else "open"                                                 *)
(* The audio encoder is followed in the same way.  Its iAudioStream() and *)
(* its uninit() hold m_mutex for their whole body and are one step each;  *)
(* its init() holds it only inside the uninit() it begins with, and is    *)
(* split after faacEncOpen and after faacEncSetConfiguration, control     *)
(* being "configure" and "start" in between and target the state          *)
(* setState was called with; m_encoder is "opened" for a handle whose     *)
(* configuration was not set yet.                                         *)

\* setState(state) on the control thread up to its return or, when it
\* tears an initialized muxer down, up to the first statement of uninit()
\* behind the lock, line 525
RaceMuxSetState(state) ==
    /\ element = "mux" /\ thr.control = "idle"
    /\ IF mux.state # "Null" /\ state = "Null" /\ mux.m_initialized
       THEN /\ \E env \in RaceUninitEnvs :
                 /\ mux.m_cuesBeforeClusters \/ env.cueFault = "none"
                 /\ thr' = [thr EXCEPT !.control = "flush", !.env = env]
            /\ mux' = [mux EXCEPT !.m_initialized = FALSE]
            /\ last' = Call("uninit", mux.state, "Null", TRUE, "enter")
       ELSE /\ \E init \in IF mux.state = "Null" /\ state # "Null"
                           THEN RaceInitEnvs ELSE {QuietMuxInit} :
                 Returns(mux, mux',
                         MuxSetState(mux, state, init, QuietUninit), state)
            /\ UNCHANGED thr
    /\ UNCHANGED <<dev, element, faac, rav1e, conf, pw>>

\* m_packetSync->setState(Null) in uninit(), line 526, with the
\* packetReady calls it makes
RaceMuxUninitFlush ==
    /\ element = "mux" /\ thr.control = "flush"
    /\ thr.syncLocks => thr.deliver # "ready"
    /\ mux' = MuxFlush(mux, PacketSyncSetState(mux.m_packetSync, "Null"))
    /\ thr' = [thr EXCEPT !.control = "finalize"]
    /\ last' = Call("uninit", mux.state, "Null", TRUE, "flush")
    /\ UNCHANGED <<dev, element, faac, rav1e, conf, pw>>

\* set_duration, Finalize and m_writer.Close() in uninit(), lines 528-557
RaceMuxUninitFinalize ==
    /\ element = "mux" /\ thr.control = "finalize"
    /\ mux' = MuxFinalize(mux, thr.env)
    /\ thr' = [thr EXCEPT !.control = "cues"]
    /\ last' = Call("uninit", mux.state, "Null", TRUE, "finalize")
    /\ UNCHANGED <<dev, element, faac, rav1e, conf, pw>>

\* the cue pass and the end of uninit(), lines 559-605, and the return of
\* setState(Null)
RaceMuxUninitReturn ==
    /\ element = "mux" /\ thr.control = "cues"
    /\ Returns(mux, mux',
               Returned(AkElementSetState(MuxAfterClose(mux, thr.env),
                                          "Null"), "none"),
               "Null")
    /\ thr' = [thr EXCEPT !.control = "idle", !.env = QuietUninit]
    /\ UNCHANGED <<dev, element, faac, rav1e, conf, pw>>

\* iStream(packet) on the delivery thread: the test of line 248
RaceMuxIStreamEnter ==
    /\ element = "mux" /\ thr.deliver = "idle"
    /\ MuxAccepted(mux) < MaxPackets
    /\ \E packet \in Packets(mux.state) :
          /\ thr' = IF mux.m_paused \/ ~mux.m_initialized
                       \/ ~mux.m_packetSync.loaded
                    THEN thr
                    ELSE [thr EXCEPT !.deliver = "sync",
                                     !.pending = <<packet>>]
          /\ last' = Call("iStream", mux.state, mux.state, TRUE, "enter")
    /\ UNCHANGED <<dev, element, mux, faac, rav1e, conf, pw>>

\* m_packetSync->iStream(packet), line 251, up to the first packet it
\* releases
RaceMuxIStreamSync ==
    /\ element = "mux" /\ thr.deliver = "sync"
    /\ LET r == PacketSyncIStream(mux.m_packetSync, Head(thr.pending))
       IN  /\ mux' = [mux EXCEPT !.m_packetSync = r.sync]
           /\ thr' = [thr EXCEPT !.pending = r.out,
                                 !.deliver = IF r.out = <<>> THEN "idle"
                                             ELSE "ready"]
    /\ last' = Call("iStream", mux.state, mux.state, TRUE, "sync")
    /\ UNCHANGED <<dev, element, faac, rav1e, conf, pw>>

\* packetReady(packet) for the next packet released, lines 608-641
RaceMuxPacketReady ==
    /\ element = "mux" /\ thr.deliver = "ready"
    /\ mux' = MuxPacketReady(mux, Head(thr.pending))
    /\ thr' = [thr EXCEPT
                  !.pending = Tail(@),
                  !.deliver = IF Len(thr.pending) = 1 THEN "idle"
                              ELSE "ready",
                  !.hit = IF mux.m_writer = "closed" THEN "closed"
                          ELSE IF thr.control = "finalize" THEN "finalizing"
                          ELSE IF thr.control = "flush" THEN "entered"
                          ELSE "open"]
    /\ last' = Call("iStream", mux.state, mux.state, TRUE, "AddFrame")
    /\ UNCHANGED <<dev, element, faac, rav1e, conf, pw>>

\* setState(state) of the audio encoder on the control thread up to its
\* return or, when init() gets that far, up to the return of faacEncOpen,
\* lines 361-380
RaceFaacSetState(state) ==
    /\ element = "faac" /\ thr.control = "idle"
    /\ IF faac.state = "Null" /\ state \in {"Paused", "Playing"}
       THEN \E inputCaps \in BOOLEAN, opened \in BOOLEAN :
               LET d0 == [FaacUninit([faac EXCEPT
                                         !.m_paused =
                                             IF state = "Paused" THEN TRUE
                                             ELSE @])
                            EXCEPT !.calls = <<>>, !.oStream = <<>>]
               IN  IF inputCaps /\ opened
                   THEN /\ faac' = [d0 EXCEPT !.m_encoder = "opened",
                                              !.closes = 0]
                        /\ thr' = [thr EXCEPT !.control = "configure",
                                              !.target = state]
                        /\ last' = Call("init", faac.state, state, TRUE,
                                        "faacEncOpen")
                   ELSE /\ Returns(faac, faac',
                                   FaacSetStateInit(
                                       FaacInitFailed(
                                           IF inputCaps
                                           THEN [d0 EXCEPT
                                                    !.m_encoder = "null",
                                                    !.closes = 0]
                                           ELSE d0,
                                           IF inputCaps THEN "faacEncOpen"
                                           ELSE "inputCaps"),
                                       state),
                                   state)
                        /\ UNCHANGED thr
       ELSE /\ Returns(faac, faac',
                       FaacSetState(faac, state, QuietFaacInit), state)
            /\ UNCHANGED thr
    /\ UNCHANGED <<dev, element, mux, rav1e, conf, pw>>

\* init() from faacEncGetCurrentConfiguration to the return of
\* faacEncSetConfiguration, lines 382-407
RaceFaacInitConfigure ==
    /\ element = "faac" /\ thr.control = "configure"
    /\ \E fault \in {"none", "version", "faacEncSetConfiguration"} :
          IF fault = "none"
          THEN /\ faac' = [faac EXCEPT !.m_encoder = "open"]
               /\ thr' = [thr EXCEPT !.control = "start"]
               /\ last' = Call("init", faac.state, thr.target, TRUE,
                               "faacEncSetConfiguration")
          ELSE /\ Returns(faac, faac',
                          FaacSetStateInit(
                              FaacInitFailed(
                                  [faac EXCEPT !.m_encoder = "closed",
                                               !.closes = @ + 1],
                                  fault),
                              thr.target),
                          thr.target)
               /\ thr' = [thr EXCEPT !.control = "idle", !.target = "Null"]
    /\ UNCHANGED <<dev, element, mux, rav1e, conf, pw>>

\* the end of init(), lines 409-427, and the return of setState
RaceFaacInitReturn ==
    /\ element = "faac" /\ thr.control = "start"
    /\ Returns(faac, faac',
               FaacSetStateInit(
                   [d |-> [faac EXCEPT
                              !.m_fillAudioGaps.state =
                                  IF faac.m_fillAudioGaps.loaded
                                  THEN "Playing" ELSE @,
                              !.m_pts = 0,
                              !.m_encodedTimePts = 0,
                              !.m_initialized = TRUE],
                    ok |-> TRUE, at |-> "none"],
                   thr.target),
               thr.target)
    /\ thr' = [thr EXCEPT !.control = "idle", !.target = "Null"]
    /\ UNCHANGED <<dev, element, mux, rav1e, conf, pw>>

\* iAudioStream(packet) on the delivery thread, behind the lock of line
\* 165 from its test to the last encodeFrame it causes
RaceFaacIAudioStream ==
    /\ element = "faac"
    /\ Len(faac.calls) < MaxPackets
    /\ \E packet \in FaacPackets(faac.state), written \in {-1, 0, 1} :
          /\ faac' = FaacIAudioStream(faac, packet, written)
          /\ last' = Call("iStream", faac.state, faac.state, TRUE,
                          IF Len(faac'.calls) > Len(faac.calls)
                          THEN "faacEncEncode" ELSE "none")
    /\ UNCHANGED <<thr, dev, element, mux, rav1e, conf, pw>>

NextRace ==
    \/ \E state \in ElementStates : RaceMuxSetState(state)
    \/ \E state \in ElementStates : RaceFaacSetState(state)
    \/ RaceFaacInitConfigure
    \/ RaceFaacInitReturn
    \/ RaceFaacIAudioStream
    \/ RaceMuxUninitFlush
    \/ RaceMuxUninitFinalize
    \/ RaceMuxUninitReturn
    \/ RaceMuxIStreamEnter
    \/ RaceMuxIStreamSync
    \/ RaceMuxPacketReady

InitRace ==
    /\ element \in {"mux", "faac"}
    /\ ElementsConstructed
    /\ thr \in {[NoThreads EXCEPT !.syncLocks = b] :
                   b \in IF element = "mux" THEN BOOLEAN ELSE {FALSE}}

SpecRace == InitRace /\ [][NextRace]_vars

(* SpecDrain follows the video encoder through the loops of encodeFrame() *)
(* and uninit(), one call of rav1e_send_frame or rav1e_receive_packet a   *)
(* step, the encoder choosing what each call reports.  iVideoStream() and *)
(* uninit() hold m_mutex, so one of them runs at a time; thr holds        *)
(*   control  "idle" outside the loops, "send" before rav1e_send_frame,   *)
(*            "receive" in the loop that follows it, "flush" in the loop  *)
(*            of uninit()                                                 *)
(*   pending  the frame encodeFrame() was called with                     *)
(*   sent     what the last rav1e_send_frame reported                     *)
(*   returned the packets rav1e_receive_packet has returned since init(), *)
(*            numbered in that order                                      *)
(*   emitted  the packets passed to sendFrame() since init()              *)
(*   spin     changes with every turn of a loop that changes nothing else *)
(* SpecDrainFair adds that the encoder does not report `encoded` or a     *)
(* packet for ever and does not report `enough data` for ever.            *)

ReceiveResults == {"SUCCESS", "ENCODED", "NEED_MORE_DATA", "FAILURE"}

SendResults == {"SUCCESS", "ENOUGH_DATA", "FAILURE"}

\* Variant of ReceivePacket: a packet is passed on only while the loop has
\* not passed one on yet.
ReceivePacket_EmitsFirstOnly(t, result) ==
    IF result = "SUCCESS"
    THEN [t EXCEPT !.returned = Append(@, Len(@) + 1),
                   !.emitted = IF t.emitted = <<>>
                               THEN Append(@, Len(t.returned) + 1) ELSE @]
    ELSE [t EXCEPT !.spin = ~@]

\* One turn of the for (;;) loop that does not leave it: a packet returned
\* is passed to sendFrame() and released, `encoded` goes round again;
\* encodeFrame() lines 651-668, uninit() lines 508-525
ReceivePacket(t, result) ==
    IF result = "SUCCESS"
    THEN [t EXCEPT !.returned = Append(@, Len(@) + 1),
                   !.emitted = Append(@, Len(t.returned) + 1)]
    ELSE [t EXCEPT !.spin = ~@]

\* setState(state) of the video encoder up to its return or, when it tears
\* an encoder down, up to the loop of uninit()
DrainSetState(state) ==
    /\ element = "rav1e" /\ thr.control = "idle"
    /\ IF rav1e.state # "Null" /\ state = "Null"
          /\ rav1e.m_initialized /\ rav1e.m_encoder # "null"
       THEN /\ rav1e' = [rav1e EXCEPT !.m_initialized = FALSE]
            /\ thr' = [thr EXCEPT !.control = "flush"]
            /\ last' = Call("uninit", rav1e.state, "Null", TRUE, "enter")
       ELSE /\ \E init \in IF rav1e.state = "Null" /\ state # "Null"
                           THEN {QuietRav1eInit,
                                 [QuietRav1eInit EXCEPT
                                     !.fault = "rav1e_context_new"]}
                           ELSE {QuietRav1eInit} :
                 Returns(rav1e, rav1e',
                         Rav1eSetState(rav1e, state, init, 0), state)
            /\ thr' = IF rav1e.state = "Null" /\ state # "Null"
                      THEN [thr EXCEPT !.returned = <<>>, !.emitted = <<>>]
                      ELSE thr
    /\ UNCHANGED <<dev, element, mux, faac, conf, pw>>

\* iVideoStream(packet) up to its return or, when it calls encodeFrame()
\* and rav1e_frame_new returns a frame, up to the while loop, line 632
DrainIVideoStream ==
    /\ element = "rav1e" /\ thr.control = "idle"
    /\ Len(rav1e.calls) < MaxPackets
    /\ \E packet \in Rav1ePackets(rav1e.state), discard \in BOOLEAN,
          frame \in BOOLEAN :
          IF \/ rav1e.m_paused \/ ~rav1e.m_initialized
             \/ ~rav1e.m_fpsControl.loaded
             \/ discard \/ ~packet.valid \/ ~frame
          THEN /\ UNCHANGED <<rav1e, thr>>
               /\ last' = Call("iStream", rav1e.state, rav1e.state, TRUE,
                               "none")
          ELSE /\ rav1e' = [rav1e EXCEPT
                               !.calls = Append(@, [encoder |-> rav1e.m_encoder,
                                                    at |-> packet.at])]
               /\ thr' = [thr EXCEPT !.control = "send",
                                     !.pending = <<packet>>]
               /\ last' = Call("encodeFrame", rav1e.state, rav1e.state, TRUE,
                               "rav1e_frame_new")
    /\ UNCHANGED <<dev, element, mux, faac, conf, pw>>

\* rav1e_send_frame in the while loop of encodeFrame(), lines 636-647
DrainSendFrame(result) ==
    /\ element = "rav1e" /\ thr.control = "send"
    /\ thr' = IF result = "FAILURE"
              THEN [thr EXCEPT !.control = "idle", !.pending = <<>>,
                               !.sent = "none"]
              ELSE [thr EXCEPT !.control = "receive", !.sent = result,
                               !.spin = ~@]
    /\ last' = Call("rav1e_send_frame", rav1e.state, rav1e.state, TRUE,
                    result)
    /\ UNCHANGED <<dev, element, mux, faac, rav1e, conf, pw>>

\* rav1e_receive_packet in the for loop of encodeFrame(), lines 651-673
DrainReceivePacket(result) ==
    /\ element = "rav1e" /\ thr.control = "receive"
    /\ result = "SUCCESS" => Len(thr.returned) < MaxPackets
    /\ IF result \in {"SUCCESS", "ENCODED"}
       THEN /\ thr' = ReceivePacket(thr, result)
            /\ rav1e' = IF result = "SUCCESS"
                        THEN [rav1e EXCEPT !.oStream = @ + 1] ELSE rav1e
       ELSE IF thr.sent = "SUCCESS"
       THEN /\ rav1e' = [rav1e EXCEPT
                            !.m_encodedTimePts =
                                Head(thr.pending).pts
                                + Head(thr.pending).duration]
            /\ thr' = [thr EXCEPT !.control = "idle", !.pending = <<>>,
                                  !.sent = "none"]
       ELSE /\ thr' = [thr EXCEPT !.control = "send"]
            /\ UNCHANGED rav1e
    /\ last' = Call("rav1e_receive_packet", rav1e.state, rav1e.state, TRUE,
                    result)
    /\ UNCHANGED <<dev, element, mux, faac, conf, pw>>

\* rav1e_receive_packet in the loop of uninit(), lines 508-525, and what
\* follows the loop up to the return of setState(Null)
DrainUninitReceive(result) ==
    /\ element = "rav1e" /\ thr.control = "flush"
    /\ result = "SUCCESS" => Len(thr.returned) < MaxPackets
    /\ IF result \in {"SUCCESS", "ENCODED"}
       THEN /\ thr' = ReceivePacket(thr, result)
            /\ rav1e' = IF result = "SUCCESS"
                        THEN [rav1e EXCEPT !.oStream = @ + 1] ELSE rav1e
            /\ last' = Call("rav1e_receive_packet", rav1e.state, "Null",
                            TRUE, result)
       ELSE /\ rav1e' = [rav1e EXCEPT !.m_encoder = "null",
                                      !.m_paused = FALSE,
                                      !.state = "Null"]
            /\ thr' = [thr EXCEPT !.control = "idle"]
            /\ last' = Call("setState", rav1e.state, "Null", TRUE, result)
    /\ UNCHANGED <<dev, element, mux, faac, conf, pw>>

NextDrain ==
    \/ \E state \in ElementStates : DrainSetState(state)
    \/ DrainIVideoStream
    \/ \E result \in SendResults : DrainSendFrame(result)
    \/ \E result \in ReceiveResults : DrainReceivePacket(result)
    \/ \E result \in ReceiveResults : DrainUninitReceive(result)

InitDrain == element = "rav1e" /\ Constructed

SpecDrain == InitDrain /\ [][NextDrain]_vars

\* The encoder ends a run of packets and `encoded` reports.
DrainEnds ==
    \E result \in {"NEED_MORE_DATA", "FAILURE"} :
        DrainReceivePacket(result) \/ DrainUninitReceive(result)

\* The encoder takes the frame, or refuses it for good.
SendEnds ==
    \E result \in {"SUCCESS", "FAILURE"} : DrainSendFrame(result)

SpecDrainFair == SpecDrain /\ WF_vars(DrainEnds) /\ SF_vars(SendEnds)

(***************************************************************************)
(* C33  With iStream() on a delivery thread and setState(Null) on the     *)
(* control thread, no AddFrame of the delivery thread is made while       *)
(* uninit() finalizes the segment or on a closed writer.                  *)
(***************************************************************************)
C33_SubmissionExcludesTeardown == thr.hit \notin {"finalizing", "closed"}

C33_NoFrameOnClosedWriter == thr.hit # "closed"

C33_ExcludedWhenSyncLocks ==
    thr.syncLocks => thr.hit \notin {"finalizing", "closed"}


(***************************************************************************)
(* C34  For each packet delivered to packetReady(): AddFrame is called    *)
(* with the audio track index when the packet is raw or compressed audio  *)
(* and with the video track index otherwise; its key flag is the packet's *)
(* key-frame flag for compressed video and true for every other type; the *)
(* running duration of the packet's stream is then (pts + duration) times *)
(* the time base of this packet and that of the other stream is as        *)
(* before.                                                                *)
(***************************************************************************)
NewestFrame(d) == d.m_muxerSegment[Len(d.m_muxerSegment)]

PacketReadyStep == last'.op = "packetReady"

FrameAsClaimed(before, after) ==
    LET frame == NewestFrame(after)
        packet == frame.packet
        audio == packet.type \in {"Audio", "AudioCompressed"}
        end == [n |-> (packet.pts + packet.duration) * packet.timeBase.num,
                d |-> packet.timeBase.den]
    IN  /\ frame.call = "AddFrame"
        /\ frame.track = IF audio THEN before.m_audioTrackIndex
                         ELSE before.m_videoTrackIndex
        /\ frame.key = IF packet.type = "VideoCompressed"
                       THEN packet.keyFrame ELSE TRUE
        /\ after.m_audioDuration = IF audio THEN end
                                   ELSE before.m_audioDuration
        /\ after.m_videoDuration = IF audio THEN before.m_videoDuration
                                   ELSE end

C34_PacketReady == [][PacketReadyStep => FrameAsClaimed(mux, mux')]_vars

\* a compressed video packet that is no key frame was appended to a
\* session with an audio track whose audio duration is not zero
C34_Witness ==
    /\ last.op = "packetReady" /\ last.at = "VideoCompressed"
    /\ ~NewestFrame(mux).key
    /\ mux.m_audioTrackIndex > 0
    /\ mux.m_audioDuration # Zero

\* a raw audio packet that carries no key-frame flag was appended
C34_RawAudioWitness ==
    /\ last.op = "packetReady" /\ last.at = "Audio"
    /\ ~NewestFrame(mux).packet.keyFrame
    /\ NewestFrame(mux).key


(***************************************************************************)
(* C35  With iAudioStream() on a delivery thread and setState on the      *)
(* control thread, every faacEncEncode call of the audio encoder is made  *)
(* on a handle that faacEncOpen returned, whose configuration was set and *)
(* that was not closed, and no handle is passed to faacEncClose twice.    *)
(***************************************************************************)
C35_EncodeOnOpenHandle ==
    /\ \A i \in DOMAIN faac.calls : faac.calls[i].encoder = "open"
    /\ faac.closes <= 1

\* a packet was encoded in a session that followed an init() which closed
\* its handle
C35_Witness ==
    /\ element = "faac" /\ thr.control = "idle"
    /\ faac.calls # <<>>
    /\ last.op = "iStream" /\ last.at = "faacEncEncode"

\* iAudioStream() ran between faacEncOpen and the end of init()
C35_DuringInitWitness ==
    /\ element = "faac" /\ thr.control \in {"configure", "start"}
    /\ last.op = "iStream"


(***************************************************************************)
(* C36  In one session of the audio encoder each packet emitted has as    *)
(* pts the sum of the durations of the packets emitted before it, and dts *)
(* equal to pts; after a successful init() m_pts and m_encodedTimePts are *)
(* 0; and m_pts never exceeds m_encodedTimePts.                           *)
(***************************************************************************)
RECURSIVE SumDurations(_, _)
SumDurations(packets, n) ==
    IF n = 0 THEN 0 ELSE packets[n].duration + SumDurations(packets, n - 1)

Contiguous(packets) ==
    \A i \in DOMAIN packets :
        /\ packets[i].pts = SumDurations(packets, i - 1)
        /\ packets[i].dts = packets[i].pts

FaacInitSucceeded ==
    /\ element = "faac"
    /\ last.op = "setState" /\ last.from = "Null" /\ last.target # "Null"
    /\ last.ret

C36_ContiguousTimestamps ==
    /\ Contiguous(faac.oStream)
    /\ FaacInitSucceeded => faac.m_pts = 0 /\ faac.m_encodedTimePts = 0
    /\ faac.m_pts <= faac.m_encodedTimePts

\* a second packet of another duration than the first was emitted
C36_Witness ==
    /\ Len(faac.oStream) = 2
    /\ faac.oStream[1].duration # faac.oStream[2].duration
    /\ faac.oStream[2].pts = faac.oStream[1].duration

\* a packet was emitted after a call for which the encoder wrote nothing
C36_GapWitness ==
    /\ Len(faac.oStream) = 1 /\ Len(faac.calls) = 2
    /\ faac.m_pts < faac.m_encodedTimePts


(***************************************************************************)
(* C37 as stated: after each rav1e_send_frame of encodeFrame(), and in    *)
(* uninit() before the context is released, rav1e_receive_packet is       *)
(* called again and again and every packet it returns is emitted, in      *)
(* order, until the encoder reports need-more-data or an error.           *)
(***************************************************************************)
SendFrameStep == last'.op = "rav1e_send_frame"

ReceiveStep == last'.op = "rav1e_receive_packet"

LoopLeft == thr.control \in {"receive", "flush"} /\ thr'.control # thr.control

Released == rav1e.m_encoder # "null" /\ rav1e'.m_encoder = "null"

C37_DrainedAfterEachSend == [][SendFrameStep => thr'.control = "receive"]_vars

(***************************************************************************)
(* C37 as amended: after each rav1e_send_frame of encodeFrame() that      *)
(* reports success or enough-data, and in uninit() before the context is  *)
(* released, rav1e_receive_packet is called again and again and every     *)
(* packet it returns is emitted, in order, until the encoder reports      *)
(* need-more-data or an error; a rav1e_send_frame that reports another    *)
(* error ends encodeFrame() at once.  Both loops end when the encoder     *)
(* does not go on reporting packets or `encoded` for ever and takes or    *)
(* refuses the frame in the end.                                          *)
(***************************************************************************)
C37_Drained ==
    [][/\ SendFrameStep =>
              thr'.control = IF last'.at = "FAILURE" THEN "idle" ELSE "receive"
       /\ thr'.emitted = thr'.returned
       /\ LoopLeft => last'.at \in {"NEED_MORE_DATA", "FAILURE"}
       /\ (ReceiveStep /\ last'.at \in {"SUCCESS", "ENCODED"})
              => thr'.control = thr.control
       /\ Released => thr.control = "flush" /\ LoopLeft]_vars

C37_LoopsEnd == (thr.control # "idle") ~> (thr.control = "idle")

C37_DrainsAndEnds == C37_Drained /\ C37_LoopsEnd

\* uninit() released the context after its loop had emitted a second
\* packet
C37_Witness ==
    /\ element = "rav1e" /\ thr.control = "idle"
    /\ last.op = "setState" /\ last.target = "Null"
    /\ last.at = "NEED_MORE_DATA"
    /\ thr.emitted = <<1, 2>> /\ rav1e.m_encoder = "null"

\* the frame is sent again after `enough data` and the packets drained
C37_RetryWitness ==
    /\ thr.control = "send" /\ thr.sent = "ENOUGH_DATA"
    /\ thr.emitted # <<>>


(***************************************************************************)
(* C38  The destructor never calls pw_main_loop_quit on a main loop that  *)
(* the worker has already destroyed.                                      *)
(***************************************************************************)
C38_NoQuitOnDestroyedLoop ==
    ~(last.op = "destructor" /\ last.at = "quit destroyed loop")

(***************************************************************************)
(* C39  After any sequence of device events, defaultInput() names a       *)
(* listed input whenever the input list is non-empty and is empty only    *)
(* when that list is empty; likewise defaultOutput() and the output list. *)
(***************************************************************************)
DefaultListed(default, m) ==
    /\ DOMAIN m # {} => \E id \in DOMAIN m : m[id] = default
    /\ default = "" => DOMAIN m = {}

C39_DefaultsListed ==
    /\ DefaultListed(DefaultInput(dev), dev.m_sources)
    /\ DefaultListed(DefaultOutput(dev), dev.m_sinks)

\* What holds: the same while every listed node has a name.
C39_NamedDefaultsListed == dev.nameless \/ C39_DefaultsListed


(***************************************************************************)
(* C40  After any sequence of device events, every name that inputs() or  *)
(* outputs() lists has an entry in the description map and in the format  *)
(* table, and every id of the device-id map is in exactly one of the sink *)
(* list and the source list.                                              *)
(***************************************************************************)
ListedHaveEntries ==
    \A name \in Inputs(dev) \cup Outputs(dev) :
        name \in dev.m_pinDescriptionMap /\ name \in dev.m_formats

IdsInOneList ==
    \A id \in DOMAIN dev.m_deviceIds :
        (id \in DOMAIN dev.m_sinks) # (id \in DOMAIN dev.m_sources)

C40_TablesConsistent == ListedHaveEntries /\ IdsInOneList

\* The first half for nodes that all have names (two may share one).
C40_NamedListedHaveEntries == dev.nameless \/ ListedHaveEntries

\* What holds: the second half while every listed node has a name.
C40_NamedIdsInOneList == dev.nameless \/ IdsInOneList

====
